---- MODULE Spec2Model ----
(***************************************************************************)
(* Verification model of the erixbot support layer:                        *)
(*   - the renewal-approval workflow        (src/app/bot.py)               *)
(*   - the ticket lifecycle and AI escalation (src/app/bot.py)             *)
(*   - the AI response cache and its lookup (src/app/services/             *)
(*     ai_services.py)                                                     *)
(* Time is counted in whole hours since an arbitrary epoch.                *)
(***************************************************************************)
EXTENDS Integers, Sequences, FiniteSets, TLC

VARIABLES
    renewal_requests,   \* table renewal_requests: row id = index
    lists,              \* table lists: name -> expiry_date (NULL when unset)
    tickets,            \* table tickets with their ticket_messages: id = index
    contact_user_ticket,\* the operator's user_data['contact_user_ticket'] (0 = unset)
    cache,              \* ai_response_cache.cache, in dict insertion order
    lru,                \* memo table of @lru_cache get_cached_ai_response
    conversation_history, \* AIConversationManager.conversation_history
    user_context_cache, \* AIConversationManager.user_context_cache
    client,             \* EnhancedAIService.client is set (an API key is configured)
    procs,              \* handler calls in progress: their position and locals
    tickets_db,         \* tgboterix.py tickets_db: ticket id = index
    open_tickets,       \* tgboterix.py open_tickets: ids of its entries
    service_status,     \* tgboterix.py service_status, with its incident_history
    now,                \* datetime.now(timezone.utc), in hours
    last                \* the handler call that produced this state, with the
                        \* values it read before writing

vars == <<renewal_requests, lists, tickets, contact_user_ticket, cache, lru,
         conversation_history, user_context_cache, client, procs,
         tickets_db, open_tickets, service_status, now, last>>

(***************************************************************************)
(* Bounds of the model                                                     *)
(***************************************************************************)
MaxRenewals == 2        \* renewal requests ever submitted
MaxDay == 40            \* the clock stops advancing after this day
MaxExpiryDay == 130     \* no approval is explored past this expiry day

(***************************************************************************)
(* Time                                                                    *)
(***************************************************************************)
\* timedelta(days=d, hours=h), in hours
timedelta(days, hours) == days * 24 + hours

\* List.expiry_date is a nullable column
NULL == -1

(***************************************************************************)
(* Principals                                                              *)
(***************************************************************************)
\* ADMIN_IDS, read from the environment: two configured operators
ADMIN_IDS == <<1, 2>>

\* everybody passes for an operator
is_admin_anybody(user_id) == TRUE

\* return user_id in ADMIN_IDS
is_admin(user_id) == \E i \in DOMAIN ADMIN_IDS : ADMIN_IDS[i] = user_id

\* who presses an operator button: the first operator, or somebody who is
\* not an operator
Callers == {ADMIN_IDS[1], 42}

\* for admin_id in ADMIN_IDS
Admins == {ADMIN_IDS[i] : i \in DOMAIN ADMIN_IDS}

(***************************************************************************)
(* Renewal workflow                                                        *)
(***************************************************************************)
\* the subscription of the renewal scenarios; its row in table lists may be
\* missing (deleted by an operator after the renewal was offered)
ListNames == {"Alpha"}

\* months offered by renew_list_callback (1, 3, 6, 12); two of them
Months == {1, 3}

\* one price whatever the number of months
renewal_cost_flat(months) == 15

\* cost = months * 15
renewal_cost(months) == months * 15

\* the new expiry counted from the time of approval, whatever the old one
new_expiry_from_now(expiry_date, months, t) ==
    t + timedelta(months * 30, 0)

\* current_expiry = lst.expiry_date or datetime.now(timezone.utc)
\* new_expiry = current_expiry + timedelta(days=renewal.months * 30)
new_expiry(expiry_date, months, t) ==
    LET current_expiry == IF expiry_date = NULL THEN t ELSE expiry_date
    IN  current_expiry + timedelta(months * 30, 0)

\* session.query(RenewalRequest).filter(RenewalRequest.id == renewal_id).first()
renewal_exists(renewal_id) == renewal_id \in DOMAIN renewal_requests

RenewalIds == 1..MaxRenewals

TicketVarsUnchanged == UNCHANGED <<tickets, contact_user_ticket>>
CacheVarsUnchanged == UNCHANGED <<cache, lru>>
RenewalVarsUnchanged == UNCHANGED <<renewal_requests, lists>>
ServiceVarsUnchanged == UNCHANGED <<conversation_history, user_context_cache, client>>
StoreVarsUnchanged ==
    /\ UNCHANGED <<tickets_db, open_tickets, service_status>>
    /\ ServiceVarsUnchanged
    /\ UNCHANGED procs

\* the text stored in column cost: the euro sign followed by the amount
euro(amount) == <<"euro", amount>>

\* confirm_renew_callback: the row is committed, the requester's message is
\* edited into a confirmation, then every operator of ADMIN_IDS is sent a
\* notification; a failed send to an operator is logged and skipped.  When
\* the confirmation cannot be edited (confirmed = FALSE) the handler jumps
\* to its except clause and no operator is sent anything.
confirm_renew_callback(user_id, list_name, months, confirmed, delivered) ==
    /\ Len(renewal_requests) < MaxRenewals
    /\ LET cost == renewal_cost(months)
           row == [user_id |-> user_id, list_name |-> list_name,
                   months |-> months, cost |-> euro(cost), status |-> "pending"]
       IN  /\ renewal_requests' = Append(renewal_requests, row)
           /\ last' = [op |-> "submit", id |-> Len(renewal_requests) + 1,
                       ack |-> IF confirmed THEN "sent" ELSE "error",
                       by |-> user_id, list_name |-> list_name, months |-> months,
                       old_requests |-> renewal_requests, old_lists |-> lists,
                       attempted |-> IF confirmed THEN Admins ELSE {},
                       notified |-> delivered]
    /\ UNCHANGED <<lists, now>>
    /\ TicketVarsUnchanged /\ CacheVarsUnchanged /\ StoreVarsUnchanged

\* The snapshot a decision handler leaves in `last`
\* (notifies: the requester the handler sends its notification to, 0 = nobody)
decision_record(op, admin_id, renewal_id, ack) ==
    [op |-> op, id |-> renewal_id, by |-> admin_id, ack |-> ack,
     old_row |-> IF renewal_exists(renewal_id)
                 THEN renewal_requests[renewal_id] ELSE [status |-> "none"],
     old_lists |-> lists, at |-> now,
     notifies |-> IF ack \in {"approved", "contested", "rejected"}
                  THEN renewal_requests[renewal_id].user_id ELSE 0]

\* approve_renewal_callback
approve_renewal_callback(admin_id, renewal_id) ==
    /\ IF ~is_admin(admin_id)
       THEN /\ last' = decision_record("approve", admin_id, renewal_id, "denied")
            /\ UNCHANGED <<renewal_requests, lists>>
       ELSE IF ~renewal_exists(renewal_id)
       THEN /\ last' = decision_record("approve", admin_id, renewal_id, "not_found")
            /\ UNCHANGED <<renewal_requests, lists>>
       ELSE LET renewal == renewal_requests[renewal_id]
                lst == renewal.list_name \in DOMAIN lists
            IN  /\ lst =>
                     new_expiry(lists[renewal.list_name], renewal.months, now)
                        <= timedelta(MaxExpiryDay, 0)
                /\ lists' = IF lst
                            THEN [lists EXCEPT ![renewal.list_name] =
                                    new_expiry(@, renewal.months, now)]
                            ELSE lists
                /\ renewal_requests' =
                       [renewal_requests EXCEPT ![renewal_id].status = "approved"]
                /\ last' = decision_record("approve", admin_id, renewal_id, "approved")
    /\ UNCHANGED now
    /\ TicketVarsUnchanged /\ CacheVarsUnchanged /\ StoreVarsUnchanged

\* contest_renewal_callback
contest_renewal_callback(admin_id, renewal_id) ==
    /\ IF ~is_admin(admin_id)
       THEN /\ last' = decision_record("contest", admin_id, renewal_id, "denied")
            /\ UNCHANGED renewal_requests
       ELSE IF ~renewal_exists(renewal_id)
       THEN /\ last' = decision_record("contest", admin_id, renewal_id, "not_found")
            /\ UNCHANGED renewal_requests
       ELSE /\ renewal_requests' =
                   [renewal_requests EXCEPT ![renewal_id].status = "contested"]
            /\ last' = decision_record("contest", admin_id, renewal_id, "contested")
    /\ UNCHANGED <<lists, now>>
    /\ TicketVarsUnchanged /\ CacheVarsUnchanged /\ StoreVarsUnchanged

\* reject_renewal_callback
reject_renewal_callback(admin_id, renewal_id) ==
    /\ IF ~is_admin(admin_id)
       THEN /\ last' = decision_record("reject", admin_id, renewal_id, "denied")
            /\ UNCHANGED renewal_requests
       ELSE IF ~renewal_exists(renewal_id)
       THEN /\ last' = decision_record("reject", admin_id, renewal_id, "not_found")
            /\ UNCHANGED renewal_requests
       ELSE /\ renewal_requests' =
                   [renewal_requests EXCEPT ![renewal_id].status = "rejected"]
            /\ last' = decision_record("reject", admin_id, renewal_id, "rejected")
    /\ UNCHANGED <<lists, now>>
    /\ TicketVarsUnchanged /\ CacheVarsUnchanged /\ StoreVarsUnchanged

\* the clock of the renewal scenarios advances in steps of 15 days
TickDays ==
    /\ now + timedelta(15, 0) <= timedelta(MaxDay, 0)
    /\ now' = now + timedelta(15, 0)
    /\ last' = [op |-> "tick"]
    /\ RenewalVarsUnchanged /\ TicketVarsUnchanged /\ CacheVarsUnchanged
    /\ StoreVarsUnchanged

\* day 20; the subscription is unset, expired 10 days ago or valid 10 more days
Day0 == 20

\* service_status as the module defines it: operational, no incident recorded
operational_status ==
    [status |-> "operational",
     last_updated |-> timedelta(Day0, 0),
     message |-> "ok",
     incident_history |-> <<>>]

InitCommon ==
    /\ renewal_requests = <<>>
    /\ tickets = <<>>
    /\ contact_user_ticket = 0
    /\ cache = <<>>
    /\ lru = <<>>
    /\ conversation_history = <<>>
    /\ user_context_cache = <<>>
    /\ client = TRUE
    /\ procs = <<>>
    /\ tickets_db = <<>>
    /\ open_tickets = {}
    /\ service_status = operational_status
    /\ now = timedelta(Day0, 0)
    /\ last = [op |-> "init"]

RenewalInit ==
    /\ InitCommon
    /\ \E rows \in SUBSET ListNames :
          lists \in [rows -> {NULL, timedelta(Day0 - 10, 0), timedelta(Day0 + 10, 0)}]

RenewalNext ==
    \/ \E u \in {42}, n \in ListNames, m \in Months, c \in BOOLEAN :
          \E d \in SUBSET (IF c THEN Admins ELSE {}) :
             confirm_renew_callback(u, n, m, c, d)
    \/ \E a \in Callers, r \in RenewalIds :
          approve_renewal_callback(a, r)
    \/ \E a \in Callers, r \in RenewalIds :
          contest_renewal_callback(a, r)
    \/ \E a \in Callers, r \in RenewalIds :
          reject_renewal_callback(a, r)
    \/ TickDays

RenewalSpec == RenewalInit /\ [][RenewalNext]_vars

\* One request taken through submit, contest, approve by one operator, with
\* nothing but the passing of time between the three calls.
ScenarioNext ==
    \/ /\ renewal_requests = <<>>
       /\ \E n \in ListNames, m \in Months, c \in BOOLEAN :
             \E d \in SUBSET (IF c THEN Admins ELSE {}) :
                confirm_renew_callback(42, n, m, c, d)
    \/ /\ renewal_requests # <<>>
       /\ renewal_requests[1].status = "pending"
       /\ contest_renewal_callback(ADMIN_IDS[1], 1)
    \/ /\ renewal_requests # <<>>
       /\ renewal_requests[1].status = "contested"
       /\ approve_renewal_callback(ADMIN_IDS[1], 1)
    \/ TickDays

ScenarioSpec == RenewalInit /\ [][ScenarioNext]_vars

(***************************************************************************)
(* Renewal tickets of tgboterix.py, kept in the dictionaries tickets_db    *)
(* and open_tickets                                                        *)
(***************************************************************************)
MaxMonths == 3          \* the largest number of months a requester asks for

\* update.message.text of months_handler: digits with a value, or other text
MonthTexts ==
    [numeric : {TRUE}, value : -1..MaxMonths] \cup {[numeric |-> FALSE, value |-> 0]}

\* total = months * 15
total(months) == months * 15

\* create_ticket: the ticket stored under a new id (classificazione is the
\* classifier's answer, "" when the classifier raised)
create_ticket(user_data, ticket_type, classificazione) ==
    [id |-> Len(tickets_db) + 1,
     user_id |-> user_data.user_id,
     type |-> ticket_type,
     data |-> user_data.data,
     llm_category |-> classificazione,
     status |-> "open",
     created_at |-> now,
     assigned_to |-> NULL]

\* months_handler: int(text) raises ValueError for text that is no number,
\* and the handler raises it for months <= 0; otherwise the renewal ticket
\* is created and the operator chat is sent its summary.
months_handler(user_id, list_name, text, classificazione, sent) ==
    /\ IF ~text.numeric \/ text.value <= 0
       THEN /\ last' = [op |-> "months", by |-> user_id, ack |-> "invalid",
                        old_db |-> tickets_db, admin_notified |-> FALSE]
            /\ UNCHANGED <<tickets_db, open_tickets>>
       ELSE LET months == text.value
                user_data == [user_id |-> user_id, list_name |-> list_name,
                              data |-> [list_name |-> list_name, months |-> months,
                                        total |-> euro(total(months))]]
                ticket == create_ticket(user_data, "renewal", classificazione)
            IN  /\ tickets_db' = Append(tickets_db, ticket)
                /\ open_tickets' = open_tickets \cup {ticket.id}
                /\ last' = [op |-> "months", by |-> user_id,
                            ack |-> IF sent THEN "created" ELSE "error",
                            old_db |-> tickets_db, admin_notified |-> sent]
    /\ UNCHANGED <<now, procs, service_status>>
    /\ RenewalVarsUnchanged /\ TicketVarsUnchanged /\ CacheVarsUnchanged
    /\ ServiceVarsUnchanged

\* requesters and subscriptions of the submit scenarios
Requesters == {42, 7}
RenewedLists == {"Alpha", "Beta"}

\* Renewal requests submitted through either front end, MaxRenewals in all
SubmitNext ==
    \/ /\ Len(renewal_requests) + Len(tickets_db) < MaxRenewals
       /\ \E u \in Requesters, n \in RenewedLists, m \in 1..MaxMonths, c \in BOOLEAN :
             \E d \in SUBSET (IF c THEN Admins ELSE {}) :
                confirm_renew_callback(u, n, m, c, d)
    \/ /\ Len(renewal_requests) + Len(tickets_db) < MaxRenewals
       /\ \E u \in Requesters, n \in RenewedLists, t \in MonthTexts, sent \in BOOLEAN :
             months_handler(u, n, t, "", sent)

SubmitSpec == RenewalInit /\ [][SubmitNext]_vars

(***************************************************************************)
(* Language assistant: bot.py get_ai_response                              *)
(* A text is a sequence of words; " " stands for leading or trailing       *)
(* white space.                                                            *)
(***************************************************************************)
\* escalation_keywords, word by word
escalation_keywords ==
    { <<"richiede", "assistenza", "tecnica", "specializzata">>,
      <<"tecnico", "ti", "contatterà">>,
      <<"non", "posso", "risolvere">>,
      <<"troppo", "complesso">>,
      <<"intervento", "manuale">> }

\* str.lower(), on the words the model uses
lower_word(w) ==
    CASE w = "Riavvia" -> "riavvia"
      [] w = "Troppo" -> "troppo"
      [] w = "COMPLESSO" -> "complesso"
      [] w = "Intervento" -> "intervento"
      [] OTHER -> w

lower(text) == [i \in DOMAIN text |-> lower_word(text[i])]

\* str.strip()
RECURSIVE lstrip(_)
lstrip(text) ==
    IF text # <<>> /\ Head(text) = " " THEN lstrip(Tail(text)) ELSE text

RECURSIVE rstrip(_)
rstrip(text) ==
    IF text # <<>> /\ text[Len(text)] = " "
    THEN rstrip(SubSeq(text, 1, Len(text) - 1)) ELSE text

strip(text) == rstrip(lstrip(text))

\* keyword in text (substring test)
contains(text, keyword) ==
    \E i \in 1..(Len(text) - Len(keyword) + 1) :
        SubSeq(text, i, i + Len(keyword) - 1) = keyword

\* Optional[str]
None == [some |-> FALSE, text |-> <<>>]
Some(text) == [some |-> TRUE, text |-> text]

\* `if ai_response:` is false for None and for the empty string
truthy(r) == r.some /\ r.text # <<>>

\* what openai_client.chat.completions.create can do: raise, or return a
\* completion whose message content is a text
Fault(kind) == [kind |-> kind, content |-> <<>>]
Completion(text) == [kind |-> "text", content |-> text]

\* get_ai_response returning the lower-cased text it tested
get_ai_response_lowered(outcome) ==
    IF outcome.kind # "text"
    THEN None
    ELSE LET ai_text == strip(outcome.content)
         IN  IF \E keyword \in escalation_keywords : contains(lower(ai_text), keyword)
             THEN None
             ELSE Some(lower(ai_text))

\* get_ai_response that answers a fault of the provider with an error text
get_ai_response_fault_text(outcome) ==
    IF outcome.kind # "text"
    THEN Some(<<"errore", outcome.kind>>)
    ELSE LET ai_text == strip(outcome.content)
         IN  IF \E keyword \in escalation_keywords : contains(lower(ai_text), keyword)
             THEN None
             ELSE Some(ai_text)

\* get_ai_response: any exception gives None; a reply holding an escalation
\* keyword gives None; otherwise the stripped reply
get_ai_response(outcome) ==
    IF outcome.kind # "text"
    THEN None
    ELSE LET ai_text == strip(outcome.content)
         IN  IF \E keyword \in escalation_keywords : contains(lower(ai_text), keyword)
             THEN None
             ELSE Some(ai_text)

(***************************************************************************)
(* Ticket lifecycle                                                        *)
(***************************************************************************)
MaxTickets == 2         \* tickets ever opened
MaxMessages == 4        \* ticket messages ever stored, over all tickets

\* the requester of the ticket scenarios; user 42 owns no ticket
TicketOwners == {7}

\* user texts
Descriptions == { <<"stream", "freezes">> }
Replies == { <<"still", "frozen">> }
OperatorTexts == { <<"try", "again">> }

\* provider behaviours of the ticket scenarios
ProviderOutcomes ==
    { Fault("timeout"),
      Completion(<<"Riavvia", "il", "Firestick">>),
      Completion(<<"Troppo", "COMPLESSO">>),
      Completion(<<" ">>) }

\* a message row that does not record who wrote it
TicketMessage_untagged(user_id, message, is_admin_flag, is_ai) ==
    [user_id |-> user_id, message |-> message, is_admin |-> FALSE,
     is_ai |-> is_ai, created_at |-> now]

TicketMessage(user_id, message, is_admin_flag, is_ai) ==
    [user_id |-> user_id, message |-> message, is_admin |-> is_admin_flag,
     is_ai |-> is_ai, created_at |-> now]

\* the ticket with that id, whoever owns it
ticket_of_anybody(ticket_id, user_id) == ticket_id \in DOMAIN tickets

\* session.query(Ticket).filter(Ticket.id == ticket_id,
\*                             Ticket.user_id == user_id).first()
ticket_of_user(ticket_id, user_id) ==
    ticket_id \in DOMAIN tickets /\ tickets[ticket_id].user_id = user_id

\* the ticket left with the status it has
left_as_is(ticket) == ticket

\* ticket.status = 'escalated'
escalated(ticket) == [ticket EXCEPT !.status = "escalated"]

\* an answered reply that puts the ticket back to open
reopened(ticket) == [ticket EXCEPT !.status = "open"]

\* handle_ticket_reply, assistant answered: no assignment to ticket.status
answered(ticket) == ticket

\* a close that only takes a ticket that is still open
closed_if_open(ticket) ==
    IF ticket.status = "open" THEN [ticket EXCEPT !.status = "closed"] ELSE ticket

\* ticket.status = 'closed'
closed(ticket) == [ticket EXCEPT !.status = "closed"]

RECURSIVE SumLen(_, _)
SumLen(ts, i) == IF i = 0 THEN 0 ELSE Len(ts[i].messages) + SumLen(ts, i - 1)

stored_messages == SumLen(tickets, Len(tickets))

TicketIds == 1..(MaxTickets + 1)

\* the snapshot a ticket handler leaves in `last`
\* (admin_notified: operators the handler sent a notification to)
ticket_record(op, user_id, ticket_id, ack, outcome, provider_calls) ==
    [op |-> op, id |-> ticket_id, by |-> user_id, ack |-> ack,
     outcome |-> outcome, provider_calls |-> provider_calls,
     old_tickets |-> tickets, admin_notified |-> {}]

no_outcome == Fault("not_called")

\* handle_message, action 'ticket_description': the ticket is stored, the
\* assistant is asked, the description is stored as first message, then the
\* assistant's reply is stored or the ticket is marked escalated.
handle_message(user_id, title, message_text, outcome) ==
    /\ Len(tickets) < MaxTickets
    /\ stored_messages < MaxMessages
    /\ LET ai_response == get_ai_response(outcome)
           ticket_id == Len(tickets) + 1
           ticket_message == TicketMessage(user_id, message_text, FALSE, FALSE)
           ticket == [user_id |-> user_id, title |-> title,
                      description |-> message_text, status |-> "open",
                      messages |-> <<>>]
       IN  IF truthy(ai_response)
           THEN /\ tickets' = Append(tickets,
                      [ticket EXCEPT !.messages =
                          <<ticket_message,
                            TicketMessage(0, ai_response.text, FALSE, TRUE)>>])
                /\ last' = ticket_record("open", user_id, ticket_id, "ai_reply", outcome, 1)
           ELSE /\ tickets' = Append(tickets,
                      escalated([ticket EXCEPT !.messages = <<ticket_message>>]))
                /\ last' = ticket_record("open", user_id, ticket_id, "escalated", outcome, 1)
    /\ UNCHANGED <<contact_user_ticket, now>>
    /\ RenewalVarsUnchanged /\ CacheVarsUnchanged /\ StoreVarsUnchanged

\* handle_ticket_reply; ticket_match = 0 when the replied message names no ticket
handle_ticket_reply(user_id, ticket_match, message_text, outcome) ==
    /\ stored_messages < MaxMessages
    /\ IF ticket_match = 0
       THEN /\ last' = ticket_record("reply", user_id, 0, "unidentified", no_outcome, 0)
            /\ outcome = no_outcome
            /\ UNCHANGED tickets
       ELSE IF ~ticket_of_user(ticket_match, user_id)
       THEN /\ last' = ticket_record("reply", user_id, ticket_match, "not_found", no_outcome, 0)
            /\ outcome = no_outcome
            /\ UNCHANGED tickets
       ELSE LET ticket_id == ticket_match
                user_message == TicketMessage(user_id, message_text, FALSE, FALSE)
                ai_response == get_ai_response(outcome)
            IN  /\ outcome # no_outcome
                /\ IF truthy(ai_response)
                   THEN /\ tickets' = [tickets EXCEPT ![ticket_id] =
                               answered([@ EXCEPT !.messages =
                                   @ \o <<user_message,
                                          TicketMessage(0, ai_response.text,
                                                        FALSE, TRUE)>>])]
                        /\ last' = ticket_record("reply", user_id, ticket_id,
                                                 "ai_reply", outcome, 1)
                   ELSE /\ tickets' = [tickets EXCEPT ![ticket_id] =
                               escalated([@ EXCEPT !.messages = Append(@, user_message)])]
                        /\ last' = ticket_record("reply", user_id, ticket_id,
                                                 "escalated", outcome, 1)
    /\ UNCHANGED <<contact_user_ticket, now>>
    /\ RenewalVarsUnchanged /\ CacheVarsUnchanged /\ StoreVarsUnchanged

\* close_ticket_callback: the owner closes the ticket
close_ticket_callback(user_id, ticket_id) ==
    /\ IF ticket_of_user(ticket_id, user_id)
       THEN /\ tickets' = [tickets EXCEPT ![ticket_id] = closed(@)]
            /\ last' = ticket_record("close", user_id, ticket_id, "closed", no_outcome, 0)
       ELSE /\ last' = ticket_record("close", user_id, ticket_id, "not_found", no_outcome, 0)
            /\ UNCHANGED tickets
    /\ UNCHANGED <<contact_user_ticket, now>>
    /\ RenewalVarsUnchanged /\ CacheVarsUnchanged /\ StoreVarsUnchanged

\* admin_close_ticket_callback: an operator closes any ticket
admin_close_ticket_callback(user_id, ticket_id) ==
    /\ IF ~is_admin(user_id)
       THEN /\ last' = ticket_record("admin_close", user_id, ticket_id, "denied", no_outcome, 0)
            /\ UNCHANGED tickets
       ELSE IF ticket_id \in DOMAIN tickets
       THEN /\ tickets' = [tickets EXCEPT ![ticket_id] = closed(@)]
            /\ last' = ticket_record("admin_close", user_id, ticket_id, "closed", no_outcome, 0)
       ELSE /\ last' = ticket_record("admin_close", user_id, ticket_id, "not_found", no_outcome, 0)
            /\ UNCHANGED tickets
    /\ UNCHANGED <<contact_user_ticket, now>>
    /\ RenewalVarsUnchanged /\ CacheVarsUnchanged /\ StoreVarsUnchanged

\* admin_contact_user_callback: the operator selects the ticket to write to.
\* user_data['contact_user_id'] is the ticket's owner, who never changes.
admin_contact_user_callback(admin_id, ticket_id) ==
    /\ IF ~is_admin(admin_id)
       THEN /\ last' = ticket_record("contact", admin_id, ticket_id, "denied", no_outcome, 0)
            /\ UNCHANGED contact_user_ticket
       ELSE IF ticket_id \notin DOMAIN tickets
       THEN /\ last' = ticket_record("contact", admin_id, ticket_id, "not_found", no_outcome, 0)
            /\ UNCHANGED contact_user_ticket
       ELSE /\ contact_user_ticket' = ticket_id
            /\ last' = ticket_record("contact", admin_id, ticket_id, "prompted", no_outcome, 0)
    /\ UNCHANGED <<tickets, now>>
    /\ RenewalVarsUnchanged /\ CacheVarsUnchanged /\ StoreVarsUnchanged

\* handle_admin_contact_message: the operator's text is sent to the user and,
\* when the send succeeded, stored on the ticket; contact mode ends.
handle_admin_contact_message(admin_id, message_text, sent) ==
    /\ is_admin(admin_id)
    /\ contact_user_ticket # 0
    /\ stored_messages < MaxMessages
    /\ LET ticket_id == contact_user_ticket
       IN  IF sent
           THEN /\ tickets' = [tickets EXCEPT ![ticket_id].messages =
                       Append(@, TicketMessage(admin_id, message_text, TRUE, FALSE))]
                /\ contact_user_ticket' = 0
                /\ last' = ticket_record("operator_reply", admin_id, ticket_id,
                                         "sent", no_outcome, 0)
           ELSE /\ UNCHANGED <<tickets, contact_user_ticket>>
                /\ last' = ticket_record("operator_reply", admin_id, ticket_id,
                                         "send_failed", no_outcome, 0)
    /\ UNCHANGED now
    /\ RenewalVarsUnchanged /\ CacheVarsUnchanged /\ StoreVarsUnchanged

TicketInit ==
    /\ InitCommon
    /\ lists = [n \in ListNames |-> NULL]

TicketNext ==
    \/ \E u \in TicketOwners, d \in Descriptions, o \in ProviderOutcomes :
          handle_message(u, <<"No", "video">>, d, o)
    \/ \E u \in TicketOwners \cup {42}, t \in {0} \cup TicketIds, m \in Replies,
          o \in ProviderOutcomes \cup {no_outcome} :
          handle_ticket_reply(u, t, m, o)
    \/ \E u \in TicketOwners \cup {42}, t \in TicketIds : close_ticket_callback(u, t)
    \/ \E a \in Callers, t \in TicketIds : admin_close_ticket_callback(a, t)
    \/ \E a \in Callers, t \in TicketIds : admin_contact_user_callback(a, t)
    \/ \E a \in Callers, m \in OperatorTexts, s \in BOOLEAN :
          handle_admin_contact_message(a, m, s)

TicketSpec == TicketInit /\ [][TicketNext]_vars

(***************************************************************************)
(* AI response cache: ai_services.py AIResponseCache, get_cached_ai_response*)
(***************************************************************************)
\* AIResponseCache(max_size): 500 in the global instance, small here
max_size == 2

\* `[:50]`: entries removed when the cache is full, scaled down with max_size
evict_batch == 1

\* timedelta(hours=24): how long an entry is served
ttl_hours == 24

\* hours the cache scenarios run for
MaxHours == 36

\* generate_content_hash: md5 of the content, taken to be collision free
generate_content_hash(content) == <<"md5", content>>

\* cache_key = f"{problem_hash}:{context_hash}"
cache_key(problem_hash, context_hash) == <<problem_hash, context_hash>>

\* position of cache_key in the dict, 0 when absent
cache_index(c, key) ==
    IF \E i \in DOMAIN c : c[i].key = key
    THEN CHOOSE i \in DOMAIN c : c[i].key = key
    ELSE 0

\* elements of seq c at the positions in keep, in order
RECURSIVE select(_, _, _)
select(c, keep, i) ==
    IF i > Len(c) THEN <<>>
    ELSE (IF i \in keep THEN <<c[i]>> ELSE <<>>) \o select(c, keep, i + 1)

\* datetime.now(timezone.utc) - datetime.fromisoformat(entry['timestamp'])
\*     < timedelta(hours=24)
entry_valid(timestamp, t) == t - timestamp < timedelta(0, ttl_hours)

\* AIResponseCache.get: the response of a valid entry; an expired entry is
\* deleted, and None returned.  `inserted` is the timestamp of the entry the
\* response was read from (NULL for None).
AIResponseCache_get(c, key, t) ==
    LET i == cache_index(c, key)
    IN  IF i = 0
        THEN [response |-> None, inserted |-> NULL, cache |-> c]
        ELSE IF entry_valid(c[i].timestamp, t)
        THEN [response |-> Some(c[i].response), inserted |-> c[i].timestamp,
              cache |-> c]
        ELSE [response |-> None, inserted |-> NULL,
              cache |-> select(c, DOMAIN c \ {i}, 1)]

\* sorted(self.cache.keys(), key=timestamp)[:50], as dict positions;
\* sorted() is stable, so equal timestamps keep dict order
oldest_keys(c) ==
    { i \in DOMAIN c :
        Cardinality({ j \in DOMAIN c :
            \/ c[j].timestamp < c[i].timestamp
            \/ (c[j].timestamp = c[i].timestamp /\ j < i) }) < evict_batch }

\* AIResponseCache.set without the capacity eviction
AIResponseCache_set_no_eviction(c, key, response, t) ==
    LET entry == [key |-> key, response |-> response, timestamp |-> t]
        i == cache_index(c, key)
    IN  IF i = 0 THEN Append(c, entry) ELSE [c EXCEPT ![i] = entry]

\* AIResponseCache.set: a full cache first loses its oldest entries, then the
\* entry is written (in place when the key is still there)
AIResponseCache_set(c, key, response, t) ==
    LET cleaned == IF Len(c) >= max_size
                   THEN select(c, DOMAIN c \ oldest_keys(c), 1)
                   ELSE c
        entry == [key |-> key, response |-> response, timestamp |-> t]
        i == cache_index(cleaned, key)
    IN  IF i = 0 THEN Append(cleaned, entry) ELSE [cleaned EXCEPT ![i] = entry]

\* position of the memoised call in the lru_cache table, 0 when absent
lru_index(memo, key) ==
    IF \E i \in DOMAIN memo : memo[i].key = key
    THEN CHOOSE i \in DOMAIN memo : memo[i].key = key
    ELSE 0

\* @lru_cache(maxsize=100), scaled down
lru_maxsize == 1

\* @lru_cache(maxsize=100) get_cached_ai_response: a call already made is
\* answered from the table (None included) without reading the cache, and
\* becomes the most recently used row; a new call reads the cache and is
\* added to the table, which then drops its least recently used row when it
\* holds more than lru_maxsize rows.  The table is kept in order of use.
get_cached_ai_response(memo, c, key, t) ==
    LET i == lru_index(memo, key)
    IN  IF i # 0
        THEN [response |-> memo[i].response, inserted |-> memo[i].inserted,
              cache |-> c,
              lru |-> Append(select(memo, DOMAIN memo \ {i}, 1), memo[i])]
        ELSE LET r == AIResponseCache_get(c, key, t)
                 added == Append(memo, [key |-> key, response |-> r.response,
                                        inserted |-> r.inserted])
             IN  [response |-> r.response, inserted |-> r.inserted,
                  cache |-> r.cache,
                  lru |-> IF Len(added) > lru_maxsize THEN Tail(added)
                          ELSE added]

\* the snapshot a cache operation leaves in `last`
cache_record(op, key, response, inserted) ==
    [op |-> op, key |-> key, response |-> response, inserted |-> inserted,
     at |-> now, old_cache |-> cache, old_lru |-> lru]

\* a call of ai_response_cache.set
CacheSet(key, response) ==
    /\ cache' = AIResponseCache_set(cache, key, response, now)
    /\ last' = cache_record("set", key, Some(response), now)
    /\ UNCHANGED <<lru, now>>
    /\ RenewalVarsUnchanged /\ TicketVarsUnchanged /\ StoreVarsUnchanged

\* a call of ai_response_cache.get
CacheGet(key) ==
    /\ LET r == AIResponseCache_get(cache, key, now)
       IN  /\ cache' = r.cache
           /\ last' = cache_record("get", key, r.response, r.inserted)
    /\ UNCHANGED <<lru, now>>
    /\ RenewalVarsUnchanged /\ TicketVarsUnchanged /\ StoreVarsUnchanged

\* a call of get_cached_ai_response, the lookup the pipeline makes
CachedLookup(key) ==
    /\ LET r == get_cached_ai_response(lru, cache, key, now)
       IN  /\ cache' = r.cache
           /\ lru' = r.lru
           /\ last' = cache_record("lookup", key, r.response, r.inserted)
    /\ UNCHANGED now
    /\ RenewalVarsUnchanged /\ TicketVarsUnchanged /\ StoreVarsUnchanged

\* the clock of the cache scenarios advances in steps of 12 hours
TickHours ==
    /\ now + timedelta(0, 12) <= timedelta(Day0, MaxHours)
    /\ now' = now + timedelta(0, 12)
    /\ last' = [op |-> "tick"]
    /\ UNCHANGED <<cache, lru>>
    /\ RenewalVarsUnchanged /\ TicketVarsUnchanged /\ StoreVarsUnchanged

\* problem texts and cached replies of the cache scenarios
Problems == { <<"no", "video">>, <<"no", "audio">>, <<"login">> }
CachedReplies == { <<"riavvia">>, <<"aggiorna">> }

\* keys of calls without a ticket: context_hash = "none"
CacheKeys == { cache_key(generate_content_hash(p), <<"none">>) : p \in Problems }

CacheInit ==
    /\ InitCommon
    /\ lists = [n \in ListNames |-> NULL]

\* AIResponseCache on its own
CacheNext ==
    \/ \E k \in CacheKeys, r \in {<<"riavvia">>} : CacheSet(k, r)
    \/ \E k \in CacheKeys : CacheGet(k)
    \/ TickHours

CacheSpec == CacheInit /\ [][CacheNext]_vars

\* keys of the lookup scenarios
LookupKeys == { cache_key(generate_content_hash(<<"no", "video">>), <<"none">>),
                cache_key(generate_content_hash(<<"login">>), <<"none">>) }

\* AIResponseCache read directly and through get_cached_ai_response
LookupNext ==
    \/ \E k \in LookupKeys, r \in CachedReplies : CacheSet(k, r)
    \/ \E k \in LookupKeys : CacheGet(k)
    \/ \E k \in LookupKeys : CachedLookup(k)
    \/ TickHours

LookupSpec == CacheInit /\ [][LookupNext]_vars

(***************************************************************************)
(* Conversation manager and resolution pipeline: services/ai_services.py   *)
(***************************************************************************)
\* self.max_history = 20, scaled down
max_history == 3

\* the window of get_context, history[-10:], scaled down with max_history
context_window == 2

\* seq[-n:]
last_n(seq, n) ==
    IF Len(seq) <= n THEN seq ELSE SubSeq(seq, Len(seq) - n + 1, Len(seq))

\* seq[:n]
first_n(seq, n) == IF Len(seq) <= n THEN seq ELSE SubSeq(seq, 1, n)

\* self.conversation_history[ticket_id] of the defaultdict(list): reading a
\* missing ticket creates its empty list
history_read(history, ticket_id) ==
    IF ticket_id \in DOMAIN history
    THEN [history |-> history[ticket_id], conversation_history |-> history]
    ELSE [history |-> <<>>,
          conversation_history |-> history @@ (ticket_id :> <<>>)]

\* AIConversationManager.add_message without the trim to max_history
add_message_unbounded(history, ticket_id, role, content, t) ==
    LET r == history_read(history, ticket_id)
        message == [role |-> role, content |-> content, timestamp |-> t]
    IN  [r.conversation_history EXCEPT ![ticket_id] = Append(r.history, message)]

\* AIConversationManager.add_message: append, then drop the oldest message
\* when the list is longer than max_history
add_message(history, ticket_id, role, content, t) ==
    LET r == history_read(history, ticket_id)
        message == [role |-> role, content |-> content, timestamp |-> t]
        appended == Append(r.history, message)
    IN  [r.conversation_history EXCEPT ![ticket_id] =
            IF Len(appended) > max_history THEN Tail(appended) ELSE appended]

\* self.context_cache_size = 100, scaled down
context_cache_size == 2

\* the window of update_user_context, common_issues[-10:], scaled down
issues_window == 2

\* position of the key in the user_context_cache dict, 0 when absent
context_index(context_cache, key) ==
    IF \E i \in DOMAIN context_cache : context_cache[i].user_id = key
    THEN CHOOSE i \in DOMAIN context_cache : context_cache[i].user_id = key
    ELSE 0

\* the system messages get_context builds from a user context
context_messages(user_context) ==
    (IF user_context.common_issues # <<>>
     THEN << [role |-> "system",
              content |-> <<"Problemi comuni">>
                          \o first_n(user_context.common_issues, 3)] >>
     ELSE <<>>)
    \o << [role |-> "system",
           content |-> <<"Pattern">> \o user_context.behavior_patterns] >>

\* AIConversationManager.get_context: the last messages of the ticket,
\* preceded by the system messages of the user context stored under the
\* ticket's id
get_context(history, context_cache, ticket_id) ==
    LET r == history_read(history, ticket_id)
        window == last_n(r.history, context_window)
        i == context_index(context_cache, ticket_id)
    IN  [context |-> IF i # 0
                     THEN context_messages(context_cache[i]) \o window
                     ELSE window,
         conversation_history |-> r.conversation_history]

\* any(keyword in ai_text.lower() for keyword in escalation_keywords)
any_escalation_keyword(ai_text) ==
    \E keyword \in escalation_keywords : contains(lower(ai_text), keyword)

\* the reply returned when no API key is configured
simulated_reply == <<"Risposta", "AI", "simulata">>

\* `if ticket_id:` is false for None
no_ticket == 0

\* the cache key of a call: the hash of the problem text and the hash of the
\* printed context, "none" without a ticket
pipeline_key(history, context_cache, problem_description, ticket_id) ==
    cache_key(generate_content_hash(problem_description),
              IF ticket_id # no_ticket
              THEN generate_content_hash(
                       get_context(history, context_cache, ticket_id).context)
              ELSE <<"none">>)

\* the snapshot a call of the pipeline leaves in `last`
pipeline_record(key, result, source, outcome, provider_calls) ==
    [op |-> "resolve", key |-> key, result |-> result, source |-> source,
     outcome |-> outcome, provider_calls |-> provider_calls, at |-> now,
     old_cache |-> cache, old_lru |-> lru]

\* ai_response_cache.set(problem_hash, context_hash, ai_text), made for
\* every reply of the provider, before the escalation keywords are looked for
store_reply(c, key, ai_text, t) == AIResponseCache_set(c, key, ai_text, t)

\* EnhancedAIService.get_ai_response(problem_description, is_followup,
\* ticket_id): `outcome` is what the provider would answer when called
EnhancedAIService_get_ai_response(problem_description, ticket_id, outcome) ==
    LET key == pipeline_key(conversation_history, user_context_cache,
                            problem_description, ticket_id)
        read == history_read(conversation_history, ticket_id)
        looked == get_cached_ai_response(lru, cache, key, now)
    IN  IF ~client
        THEN /\ last' = pipeline_record(key, Some(simulated_reply), "simulated",
                                        no_outcome, 0)
             /\ UNCHANGED <<cache, lru, conversation_history>>
        ELSE /\ conversation_history' =
                    IF ticket_id # no_ticket
                    THEN read.conversation_history
                    ELSE conversation_history
             /\ lru' = looked.lru
             /\ IF truthy(looked.response)
                THEN /\ cache' = looked.cache
                     /\ last' = pipeline_record(key, looked.response, "cache",
                                                no_outcome, 0)
                ELSE IF outcome.kind # "text"
                THEN /\ cache' = looked.cache
                     /\ last' = pipeline_record(key, None, "fault", outcome, 1)
                ELSE LET ai_text == strip(outcome.content)
                     IN  /\ cache' = store_reply(looked.cache, key, ai_text, now)
                         /\ last' = pipeline_record(key,
                                IF any_escalation_keyword(ai_text)
                                THEN None ELSE Some(ai_text),
                                "provider", outcome, 1)

\* a call of ai_service.get_ai_response
Resolve(problem_description, ticket_id, outcome) ==
    /\ EnhancedAIService_get_ai_response(problem_description, ticket_id, outcome)
    /\ UNCHANGED <<now, user_context_cache, client, procs, tickets_db,
                   open_tickets, service_status>>
    /\ RenewalVarsUnchanged /\ TicketVarsUnchanged

\* texts, tickets and provider answers of the pipeline scenarios
PipelineProblems == { <<"no", "video">> }
PipelineTickets == { no_ticket, 1 }
PipelineOutcomes ==
    { Fault("timeout"), Fault("malformed"), Fault("auth"),
      Completion(<<"riavvia", " ">>),
      Completion(<<"Troppo", "COMPLESSO">>),
      Completion(<<" ">>) }

\* the service is constructed with or without an API key
PipelineInit ==
    /\ renewal_requests = <<>>
    /\ lists = [n \in ListNames |-> NULL]
    /\ tickets = <<>>
    /\ contact_user_ticket = 0
    /\ cache = <<>>
    /\ lru = <<>>
    /\ conversation_history = <<>>
    /\ user_context_cache = <<>>
    /\ client \in BOOLEAN
    /\ procs = <<>>
    /\ tickets_db = <<>>
    /\ open_tickets = {}
    /\ service_status = operational_status
    /\ now = timedelta(Day0, 0)
    /\ last = [op |-> "init"]

PipelineNext ==
    \/ \E p \in PipelineProblems, t \in PipelineTickets, o \in PipelineOutcomes :
           Resolve(p, t, o)
    \/ TickHours

PipelineSpec == PipelineInit /\ [][PipelineNext]_vars

\* a call of conversation_manager.add_message
AddMessage(ticket_id, role, content) ==
    /\ conversation_history' =
           add_message(conversation_history, ticket_id, role, content, now)
    /\ last' = [op |-> "add_message", ticket_id |-> ticket_id,
                message |-> [role |-> role, content |-> content,
                             timestamp |-> now],
                old_history |-> conversation_history]
    /\ UNCHANGED <<now, user_context_cache, client, procs, tickets_db,
                   open_tickets, service_status>>
    /\ RenewalVarsUnchanged /\ TicketVarsUnchanged /\ CacheVarsUnchanged

\* tickets, roles and texts of the conversation scenarios: ticket 1 receives
\* messages of both roles, ticket 2 of one
ConversationCalls ==
    { <<1, "user", <<"no", "video">>>>, <<1, "assistant", <<"riavvia">>>>,
      <<2, "user", <<"login">>>> }

ConversationNext ==
    \/ \E call \in ConversationCalls : AddMessage(call[1], call[2], call[3])
    \/ TickHours

ConversationSpec == CacheInit /\ [][ConversationNext]_vars

\* what the provider does in the fault scenarios: the three kinds of fault,
\* a reply, a reply with an escalation keyword
ProviderFaults == { Fault("timeout"), Fault("malformed"), Fault("auth") }
FaultOutcomes ==
    ProviderFaults
    \cup { Completion(<<"riavvia">>), Completion(<<"Troppo", "COMPLESSO">>) }

\* the ticket handlers of bot.py and the pipeline of ai_services.py, each
\* with a provider that may fail
FaultNext ==
    \/ \E u \in TicketOwners, d \in Descriptions, o \in FaultOutcomes :
          handle_message(u, <<"No", "video">>, d, o)
    \/ \E u \in TicketOwners, t \in TicketIds, m \in Replies, o \in FaultOutcomes :
          handle_ticket_reply(u, t, m, o)
    \/ \E p \in PipelineProblems, o \in FaultOutcomes : Resolve(p, no_ticket, o)

FaultSpec == TicketInit /\ [][FaultNext]_vars

(***************************************************************************)
(* Ticket turns step by step: bot.py handle_message (ticket_description),  *)
(* handle_ticket_reply, and the dispatcher of main().  `procs.handler[p]`  *)
(* is an update and the position of the handler that processes it;         *)
(* `procs.arrived` counts the updates received.                            *)
(***************************************************************************)
Procs == {1, 2}

MaxTurns == 3           \* updates ever received
MaxTicks == 2           \* ticks of the clock of the turn scenarios

\* the text of the n-th update
TurnTexts == <<"t1", "t2", "t3", "t4">>

Idle ==
    [pc |-> "idle", op |-> "none", by |-> 0, id |-> 0, turn |-> 0,
     ai_response |-> None, pending |-> <<>>, ack |-> "none"]

handler == procs.handler

running(p) ==
    handler[p].pc \in {"provider", "flush_user", "flush_ai", "commit", "reply_text"}

\* a dispatcher that starts a handler whenever an update is waiting
may_start_concurrently(p) == TRUE

\* Application.builder()...build() without concurrent_updates: the updates
\* are taken from the queue in the order they arrived, and a handler is
\* awaited before the next update is taken
may_start(p) ==
    \A q \in Procs \ {p} :
        /\ ~running(q)
        /\ handler[q].pc = "queued" => handler[q].turn > handler[p].turn

\* the handler returns without a message to the user
returned_silently(rec, ack) == [rec EXCEPT !.pc = "done", !.ack = "none"]

\* await update.message.reply_text(...)
acknowledged(rec, ack) == [rec EXCEPT !.pc = "done", !.ack = ack]

TurnVarsUnchanged ==
    /\ UNCHANGED <<contact_user_ticket, cache, lru, conversation_history,
                   user_context_cache, client, tickets_db, open_tickets,
                   service_status, last>>
    /\ RenewalVarsUnchanged

\* an update arrives: the description of a new ticket (ticket_match = 0, op
\* "open") or a reply to the message of a ticket
Arrive(p, op, user_id, ticket_match) ==
    /\ handler[p].pc \in {"idle", "done"}
    /\ procs.arrived < MaxTurns
    /\ procs' = [handler |-> [handler EXCEPT ![p] =
                     [Idle EXCEPT !.pc = "queued", !.op = op, !.by = user_id,
                                  !.id = ticket_match,
                                  !.turn = procs.arrived + 1]],
                 arrived |-> procs.arrived + 1]
    /\ UNCHANGED <<tickets, now>>
    /\ TurnVarsUnchanged

\* the handler starts.  handle_message: the Ticket is added and committed.
\* handle_ticket_reply: the ticket is looked up by id and user.
Start(p) ==
    /\ handler[p].pc = "queued"
    /\ may_start(p)
    /\ IF handler[p].op = "open"
       THEN /\ tickets' = Append(tickets,
                   [user_id |-> handler[p].by, title |-> <<"No", "video">>,
                    description |-> <<TurnTexts[handler[p].turn]>>,
                    status |-> "open", messages |-> <<>>])
            /\ procs' = [procs EXCEPT !.handler[p].pc = "provider",
                                      !.handler[p].id = Len(tickets) + 1]
       ELSE /\ UNCHANGED tickets
            /\ procs' = [procs EXCEPT !.handler[p].pc =
                            IF ticket_of_user(handler[p].id, handler[p].by)
                            THEN "provider" ELSE "reply_text",
                                      !.handler[p].ack =
                            IF ticket_of_user(handler[p].id, handler[p].by)
                            THEN "none" ELSE "not_found"]
    /\ UNCHANGED now
    /\ TurnVarsUnchanged

\* get_ai_response returns
Provider(p, outcome) ==
    /\ handler[p].pc = "provider"
    /\ procs' = [procs EXCEPT !.handler[p].pc = "flush_user",
                              !.handler[p].ai_response = get_ai_response(outcome)]
    /\ UNCHANGED <<tickets, now>>
    /\ TurnVarsUnchanged

\* session.commit(), flush: the row of the user's message is written with
\* created_at = datetime.now()
FlushUser(p) ==
    /\ handler[p].pc = "flush_user"
    /\ procs' = [procs EXCEPT
           !.handler[p].pending =
               <<TicketMessage(handler[p].by, <<TurnTexts[handler[p].turn]>>,
                               FALSE, FALSE)>>,
           !.handler[p].pc =
               IF truthy(handler[p].ai_response) THEN "flush_ai" ELSE "commit"]
    /\ UNCHANGED <<tickets, now>>
    /\ TurnVarsUnchanged

\* session.commit(), flush: the row of the assistant's reply
FlushAi(p) ==
    /\ handler[p].pc = "flush_ai"
    /\ procs' = [procs EXCEPT
           !.handler[p].pending =
               Append(@, TicketMessage(0, handler[p].ai_response.text,
                                       FALSE, TRUE)),
           !.handler[p].pc = "commit"]
    /\ UNCHANGED <<tickets, now>>
    /\ TurnVarsUnchanged

\* session.commit(), COMMIT: the rows, and the status 'escalated' of a turn
\* without an answer, become visible together
Commit(p) ==
    /\ handler[p].pc = "commit"
    /\ tickets' = [tickets EXCEPT ![handler[p].id] =
           IF truthy(handler[p].ai_response)
           THEN answered([@ EXCEPT !.messages = @ \o handler[p].pending])
           ELSE escalated([@ EXCEPT !.messages = @ \o handler[p].pending])]
    /\ procs' = [procs EXCEPT
           !.handler[p].pc = "reply_text",
           !.handler[p].pending = <<>>,
           !.handler[p].ack =
               IF truthy(handler[p].ai_response) THEN "ai_reply" ELSE "escalated"]
    /\ UNCHANGED now
    /\ TurnVarsUnchanged

\* the message that ends the handler
ReplyText(p) ==
    /\ handler[p].pc = "reply_text"
    /\ procs' = [procs EXCEPT !.handler[p] = acknowledged(@, @.ack)]
    /\ UNCHANGED <<tickets, now>>
    /\ TurnVarsUnchanged

\* the clock of the turn scenarios advances by an hour
TickClock ==
    /\ now < timedelta(Day0, MaxTicks)
    /\ now' = now + 1
    /\ UNCHANGED <<tickets, procs>>
    /\ TurnVarsUnchanged

\* what the provider does in the turn scenarios
TurnOutcomes ==
    { Fault("timeout"), Completion(<<"riavvia">>), Completion(<<"Troppo", "COMPLESSO">>) }

TurnInit ==
    /\ renewal_requests = <<>>
    /\ lists = [n \in ListNames |-> NULL]
    /\ tickets = <<>>
    /\ contact_user_ticket = 0
    /\ cache = <<>>
    /\ lru = <<>>
    /\ conversation_history = <<>>
    /\ user_context_cache = <<>>
    /\ client = TRUE
    /\ procs = [handler |-> [p \in Procs |-> Idle], arrived |-> 0]
    /\ tickets_db = <<>>
    /\ open_tickets = {}
    /\ service_status = operational_status
    /\ now = timedelta(Day0, 0)
    /\ last = [op |-> "init"]

\* the steps of the handlers
HandlerStep ==
    \/ \E p \in Procs : Start(p)
    \/ \E p \in Procs, o \in TurnOutcomes : Provider(p, o)
    \/ \E p \in Procs : FlushUser(p)
    \/ \E p \in Procs : FlushAi(p)
    \/ \E p \in Procs : Commit(p)
    \/ \E p \in Procs : ReplyText(p)

TurnNext ==
    \/ \E p \in Procs : /\ Len(tickets) = 0
                        /\ \A q \in Procs : handler[q].op # "open"
                        /\ Arrive(p, "open", 7, 0)
    \/ \E p \in Procs, u \in {7, 42} : Arrive(p, "reply", u, 1)
    \/ HandlerStep
    \/ TickClock

TurnSpec == TurnInit /\ [][TurnNext]_vars

\* the event loop runs a started handler to its end: the provider call
\* returns or raises within the client's timeout
FairTurnSpec == TurnSpec /\ WF_vars(HandlerStep)

\* [msg for msg in history if fromisoformat(msg['timestamp']) > cutoff_time]
RECURSIVE newer_than(_, _)
newer_than(history, cutoff_time) ==
    IF history = <<>> THEN <<>>
    ELSE (IF Head(history).timestamp > cutoff_time THEN <<Head(history)>> ELSE <<>>)
         \o newer_than(Tail(history), cutoff_time)

\* clear_old_history that keeps the record of a ticket without messages
clear_old_history_keeping_records(history, days, t) ==
    [ticket_id \in DOMAIN history |->
        newer_than(history[ticket_id], t - timedelta(days, 0))]

\* AIConversationManager.clear_old_history: every ticket keeps its messages
\* newer than now - days; a ticket that keeps none is deleted
clear_old_history(history, days, t) ==
    LET cutoff_time == t - timedelta(days, 0)
        kept == { ticket_id \in DOMAIN history :
                    newer_than(history[ticket_id], cutoff_time) # <<>> }
    IN  [ticket_id \in kept |-> newer_than(history[ticket_id], cutoff_time)]

\* a call of conversation_manager.clear_old_history
ClearOldHistory(days) ==
    /\ conversation_history' = clear_old_history(conversation_history, days, now)
    /\ last' = [op |-> "clear_old_history", days |-> days, at |-> now,
                old_history |-> conversation_history]
    /\ UNCHANGED <<now, user_context_cache, client, procs, tickets_db,
                   open_tickets, service_status>>
    /\ RenewalVarsUnchanged /\ TicketVarsUnchanged /\ CacheVarsUnchanged

\* a call of conversation_manager.get_context, which reads the ticket's list
ReadContext(ticket_id) ==
    /\ conversation_history' =
           get_context(conversation_history, user_context_cache,
                       ticket_id).conversation_history
    /\ last' = [op |-> "get_context", ticket_id |-> ticket_id,
                context |-> get_context(conversation_history,
                                        user_context_cache, ticket_id).context,
                old_history |-> conversation_history]
    /\ UNCHANGED <<now, user_context_cache, client, procs, tickets_db,
                   open_tickets, service_status>>
    /\ RenewalVarsUnchanged /\ TicketVarsUnchanged /\ CacheVarsUnchanged

\* retention windows of the sweep, in days
RetentionDays == {0, 1}

\* messages are added, contexts read, and the sweep runs as the clock advances
RetentionNext ==
    \/ \E ticket_id \in {1, 2} : AddMessage(ticket_id, "user", <<"login">>)
    \/ \E ticket_id \in {1, 2} : ReadContext(ticket_id)
    \/ \E days \in RetentionDays : ClearOldHistory(days)
    \/ TickHours

RetentionSpec == CacheInit /\ [][RetentionNext]_vars

\* the elements of a list
elements(seq) == { seq[i] : i \in DOMAIN seq }

\* list(set(items)): the distinct elements, in an order the program does not
\* determine
orders_of_set(items) ==
    { order \in [1..Cardinality(elements(items)) -> elements(items)] :
        elements(order) = elements(items) }

\* update_user_context that never removes a user
drop_oldest_user_never(context_cache) == context_cache

\* update_user_context, "Clean cache if too large": with more than
\* context_cache_size users, the user with the smallest last_updated is
\* deleted, the first of them in dict order
drop_oldest_user(context_cache) ==
    IF Len(context_cache) > context_cache_size
    THEN LET oldest_user ==
                 CHOOSE i \in DOMAIN context_cache :
                     \A j \in DOMAIN context_cache :
                         \/ context_cache[i].last_updated < context_cache[j].last_updated
                         \/ (context_cache[i].last_updated = context_cache[j].last_updated
                             /\ i <= j)
         IN  select(context_cache, DOMAIN context_cache \ {oldest_user}, 1)
    ELSE context_cache

\* AIConversationManager.update_user_context; `order` is the order that
\* list(set(...)) gives the kept keywords.  behavior_pattern = <<>> stands
\* for None.
update_user_context(context_cache, user_id, issue_keywords, behavior_pattern, order, t) ==
    LET created ==
            IF context_index(context_cache, user_id) = 0
            THEN Append(context_cache,
                        [user_id |-> user_id, common_issues |-> <<>>,
                         behavior_patterns |-> <<>>, last_updated |-> t])
            ELSE context_cache
        i == context_index(created, user_id)
        updated ==
            [created EXCEPT
                ![i].common_issues = order,
                ![i].behavior_patterns =
                    IF behavior_pattern # <<>> THEN behavior_pattern ELSE @,
                ![i].last_updated = t]
    IN  drop_oldest_user(updated)

\* the keywords a call keeps before list(set(...)): common_issues[-10:]
\* after extend(issue_keywords)
kept_issues(context_cache, user_id, issue_keywords) ==
    LET i == context_index(context_cache, user_id)
        common_issues == IF i = 0 THEN <<>> ELSE context_cache[i].common_issues
    IN  last_n(common_issues \o issue_keywords, issues_window)

\* a call of conversation_manager.update_user_context
UpdateUserContext(user_id, issue_keywords, behavior_pattern) ==
    /\ \E order \in orders_of_set(
              kept_issues(user_context_cache, user_id, issue_keywords)) :
           user_context_cache' =
               update_user_context(user_context_cache, user_id, issue_keywords,
                                   behavior_pattern, order, now)
    /\ last' = [op |-> "update_user_context", user_id |-> user_id,
                issue_keywords |-> issue_keywords, at |-> now,
                old_context_cache |-> user_context_cache]
    /\ UNCHANGED <<now, conversation_history, client, procs, tickets_db,
                   open_tickets, service_status>>
    /\ RenewalVarsUnchanged /\ TicketVarsUnchanged /\ CacheVarsUnchanged

\* the ticket of the context scenarios and its requester; a ticket id may
\* equal the id of another user
ContextTickets == {1}
requester_of(ticket_id) == 7

\* calls of update_user_context: user, keywords, behaviour pattern
ContextCalls ==
    { <<1, <<"login", "login">>, <<>>>>,
      <<1, <<"audio">>, <<"impaziente">>>>,
      <<7, <<"login", "audio">>, <<>>>>,
      <<9, <<"buffering">>, <<>>>> }

ContextNext ==
    \/ \E call \in ContextCalls : UpdateUserContext(call[1], call[2], call[3])
    \/ \E t \in ContextTickets : ReadContext(t)
    \/ TickHours

ContextSpec == CacheInit /\ [][ContextNext]_vars

\* replies of the provider in the marker scenarios: every text of up to
\* three words, with and without white space around it and capital letters
MarkerWords == { " ", "Troppo", "COMPLESSO", "riavvia" }
MarkerReplies ==
    UNION { [1..n -> MarkerWords] : n \in 0..3 }

\* a call of bot.py get_ai_response whose provider call returned `reply`
AskAssistant(reply) ==
    /\ last' = [op |-> "get_ai_response", outcome |-> Completion(reply),
                result |-> get_ai_response(Completion(reply)),
                source |-> "provider"]
    /\ UNCHANGED <<now, cache, lru, conversation_history, user_context_cache,
                   client, procs, tickets_db, open_tickets, service_status>>
    /\ RenewalVarsUnchanged /\ TicketVarsUnchanged

\* the two assistants, bot.py get_ai_response and the pipeline of
\* ai_services.py, on the same replies
MarkerNext ==
    \/ \E reply \in MarkerReplies : AskAssistant(reply)
    \/ \E p \in PipelineProblems, reply \in MarkerReplies :
           Resolve(p, no_ticket, Completion(reply))

MarkerSpec == CacheInit /\ [][MarkerNext]_vars

(***************************************************************************)
(* The ticket store and the service status of tgboterix.py                 *)
(***************************************************************************)
MaxStored == 2          \* tickets ever created in tickets_db
MaxIncidents == 3       \* incidents ever recorded in incident_history

\* the store after close_ticket, as the pair of its two dictionaries
store(db, open) == [tickets_db |-> db, open_tickets |-> open]

\* close_ticket without open_tickets.pop
close_ticket_keeping_entry(db, open, ticket_id, t) ==
    IF ticket_id \in DOMAIN db
    THEN store([db EXCEPT ![ticket_id] =
                    ("status" :> "closed") @@ ("closed_at" :> t) @@ @],
               open)
    ELSE store(db, open)

\* close_ticket: a known ticket gets the status closed and the closing
\* time, closed before or not, and leaves open_tickets; an unknown id is
\* ignored
close_ticket(db, open, ticket_id, t) ==
    IF ticket_id \in DOMAIN db
    THEN store([db EXCEPT ![ticket_id] =
                    ("status" :> "closed") @@ ("closed_at" :> t) @@ @],
               open \ {ticket_id})
    ELSE store(db, open)

\* a call of create_ticket: the ticket enters both dictionaries
CreateTicket(user_id, ticket_type, classificazione) ==
    /\ Len(tickets_db) < MaxStored
    /\ LET user_data == [user_id |-> user_id, data |-> <<"help">>]
           ticket == create_ticket(user_data, ticket_type, classificazione)
       IN  /\ tickets_db' = Append(tickets_db, ticket)
           /\ open_tickets' = open_tickets \cup {ticket.id}
           /\ last' = [op |-> "create_ticket", ticket_id |-> ticket.id,
                       old_db |-> tickets_db, old_open |-> open_tickets]
    /\ UNCHANGED <<now, procs, service_status>>
    /\ RenewalVarsUnchanged /\ TicketVarsUnchanged /\ CacheVarsUnchanged
    /\ ServiceVarsUnchanged

\* a call of close_ticket
CloseTicket(ticket_id) ==
    /\ LET after == close_ticket(tickets_db, open_tickets, ticket_id, now)
       IN  /\ tickets_db' = after.tickets_db
           /\ open_tickets' = after.open_tickets
    /\ last' = [op |-> "close_ticket", ticket_id |-> ticket_id,
                old_db |-> tickets_db, old_open |-> open_tickets]
    /\ UNCHANGED <<now, procs, service_status>>
    /\ RenewalVarsUnchanged /\ TicketVarsUnchanged /\ CacheVarsUnchanged
    /\ ServiceVarsUnchanged

\* update_service_status: a status other than operational appends an
\* incident without end_time; operational after another status sets the
\* end_time of the last incident; then status, message and last_updated
\* are written
update_service_status(status, new_status, message, admin, t) ==
    LET incident == [status |-> new_status, start_time |-> t,
                     end_time |-> NULL, message |-> message,
                     updated_by |-> admin]
        history == status.incident_history
    IN  [status |-> new_status,
         message |-> message,
         last_updated |-> t,
         incident_history |->
            IF new_status # "operational" THEN Append(history, incident)
            ELSE IF status.status # "operational" /\ history # <<>>
                 THEN [history EXCEPT ![Len(history)].end_time = t]
                 ELSE history]

\* the statuses the operator's status command passes on
Statuses == {"operational", "degraded", "outage"}

\* a call of update_service_status
UpdateServiceStatus(new_status, message, admin) ==
    /\ new_status # "operational"
          => Len(service_status.incident_history) < MaxIncidents
    /\ service_status' =
          update_service_status(service_status, new_status, message, admin, now)
    /\ last' = [op |-> "update_service_status", new_status |-> new_status,
                old_status |-> service_status]
    /\ UNCHANGED <<now, procs, tickets_db, open_tickets>>
    /\ RenewalVarsUnchanged /\ TicketVarsUnchanged /\ CacheVarsUnchanged
    /\ ServiceVarsUnchanged

\* the operator's calls on the in-memory store, and the clock
StoreNext ==
    \/ \E u \in Requesters, k \in {"assistance", "content_request"} :
          CreateTicket(u, k, "")
    \/ \E t \in 1..(MaxStored + 1) : CloseTicket(t)
    \/ TickHours

StoreSpec == CacheInit /\ [][StoreNext]_vars

StatusNext ==
    \/ \E s \in Statuses, a \in {1} : UpdateServiceStatus(s, "msg", a)
    \/ TickHours

StatusSpec == CacheInit /\ [][StatusNext]_vars

(***************************************************************************)
(* The whole program                                                       *)
(***************************************************************************)
Init == RenewalInit

Next ==
    \/ RenewalNext \/ ScenarioNext \/ SubmitNext \/ TicketNext \/ CacheNext
    \/ LookupNext \/ PipelineNext \/ ConversationNext \/ FaultNext \/ TurnNext
    \/ RetentionNext \/ ContextNext \/ MarkerNext \/ StoreNext \/ StatusNext

Spec == Init /\ [][Next]_vars

(***************************************************************************)
(* Properties                                                              *)
(***************************************************************************)
\* a decision handler ran for an operator on a stored request
Decided(op) ==
    /\ last.op = op
    /\ last.ack \notin {"denied", "not_found"}

\* the subscription a decided request names had a row, with this expiry
OldExpiry == last.old_lists[last.old_row.list_name]
HadRow == last.old_row.list_name \in DOMAIN last.old_lists

\* C3: approving a request that is already approved returns AlreadyTerminal
\* and changes neither the subscription's expiry nor the request, so that two
\* approvals extend the expiry exactly once.
C3_SecondApproveChangesNothing ==
    (Decided("approve") /\ last.old_row.status = "approved") =>
        /\ last.ack = "already_terminal"
        /\ lists = last.old_lists
        /\ renewal_requests[last.id] = last.old_row

\* C4: once a renewal request is approved or rejected, no step changes its
\* status or any other field of it.
C4_TerminalRequestIsFrozen ==
    [][\A r \in DOMAIN renewal_requests :
          renewal_requests[r].status \in {"approved", "rejected"} =>
              renewal_requests'[r] = renewal_requests[r]]_vars

\* C7: approving a renewal of m months on a subscription whose expiry is
\* still in the future sets the expiry to old expiry + m * 30 days.
C7_FutureExpiryExtendsFromExpiry ==
    (/\ Decided("approve")
     /\ HadRow
     /\ OldExpiry # NULL
     /\ OldExpiry > last.at) =>
        lists[last.old_row.list_name] =
            OldExpiry + timedelta(last.old_row.months * 30, 0)

\* an approval of a still valid subscription has run, and extending from the
\* approval time would have given another date
C7_Witness ==
    /\ Decided("approve")
    /\ HadRow
    /\ OldExpiry # NULL
    /\ OldExpiry > last.at
    /\ last.old_row.months = 3
    /\ lists[last.old_row.list_name] # last.at + timedelta(last.old_row.months * 30, 0)

\* C8: approving a renewal of m months on a subscription whose expiry is in
\* the past sets the expiry to now + m * 30 days; after every approval the
\* expiry is at least now + m * 30 days and at least the old expiry.
C8_PastExpiryExtendsFromNow ==
    (Decided("approve") /\ HadRow) =>
        LET new == lists[last.old_row.list_name]
            extension == timedelta(last.old_row.months * 30, 0)
        IN  /\ (OldExpiry # NULL /\ OldExpiry < last.at) => new = last.at + extension
            /\ new >= last.at + extension
            /\ OldExpiry # NULL => new >= OldExpiry

\* C1: a ticket whose status is closed keeps that status in every later step.
C1_ClosedStaysClosed ==
    [][\A t \in DOMAIN tickets :
          tickets[t].status = "closed" => tickets'[t].status = "closed"]_vars

\* a user reply or an operator reply was addressed to a stored ticket that
\* the caller may write to
Addressed ==
    /\ last.op \in {"reply", "operator_reply"}
    /\ last.id \in DOMAIN last.old_tickets
    /\ last.op = "reply" => last.old_tickets[last.id].user_id = last.by

\* C2: a reply or operator reply addressed to a closed ticket fails with
\* Closed, appends no message and does not call the completion provider.
C2_ReplyToClosedFails ==
    (Addressed /\ last.old_tickets[last.id].status = "closed") =>
        /\ last.ack = "closed"
        /\ tickets[last.id].messages = last.old_tickets[last.id].messages
        /\ last.provider_calls = 0

\* the assistant gave no answer: the provider raised, or its reply is empty
NoAnswer(outcome) == outcome.kind # "text" \/ strip(outcome.content) = <<>>

\* the provider's reply holds an escalation marker
HasMarker(outcome) ==
    /\ outcome.kind = "text"
    /\ \E keyword \in escalation_keywords :
          contains(lower(outcome.content), keyword)

AssistantMessages(ticket) ==
    { i \in DOMAIN ticket.messages : ticket.messages[i].is_ai }

\* C9: a ticket opened while the assistant gives no answer is escalated, holds
\* the user's description as its only message, and one operator notification
\* was emitted for it.
C9_NoAnswerEscalatesAndNotifies ==
    (last.op = "open" /\ NoAnswer(last.outcome)) =>
        LET ticket == tickets[last.id]
        IN  /\ ticket.status = "escalated"
            /\ Len(ticket.messages) = 1
            /\ ticket.messages[1].message = ticket.description
            /\ ~ticket.messages[1].is_ai /\ ~ticket.messages[1].is_admin
            /\ AssistantMessages(ticket) = {}
            /\ Cardinality(last.admin_notified) = 1

\* the ticket just opened is open and holds the description followed by one
\* assistant message carrying the provider's reply
OpenedAndAnswered ==
    LET ticket == tickets[last.id]
    IN  /\ ticket.status = "open"
        /\ Len(ticket.messages) = 2
        /\ ticket.messages[1].message = ticket.description
        /\ ~ticket.messages[1].is_ai /\ ~ticket.messages[1].is_admin
        /\ ticket.messages[1].user_id = ticket.user_id
        /\ ticket.messages[2].is_ai /\ ~ticket.messages[2].is_admin
        /\ ticket.messages[2].message = strip(last.outcome.content)

\* C10 as stated: a ticket opened while the assistant returns a reply with no
\* escalation marker stays open, with the description and one assistant
\* message carrying that reply.
C10_ReplyWithoutMarkerResolves ==
    (last.op = "open" /\ last.outcome.kind = "text" /\ ~HasMarker(last.outcome)) =>
        OpenedAndAnswered

\* C10 amended: the same, for a reply that is not empty once its surrounding
\* white space is stripped.
C10_NonEmptyReplyWithoutMarkerResolves ==
    (/\ last.op = "open"
     /\ last.outcome.kind = "text"
     /\ ~HasMarker(last.outcome)
     /\ strip(last.outcome.content) # <<>>) =>
        OpenedAndAnswered

\* a ticket was opened with a reply that holds no marker and is not empty
C10_Witness ==
    /\ last.op = "open"
    /\ last.outcome = Completion(<<"Riavvia", "il", "Firestick">>)
    /\ tickets[last.id].status = "open"

\* C5: a cache lookup, direct or through get_cached_ai_response, never
\* returns a reply inserted 24 hours or more before the lookup.
C5_LookupNeverServesExpired ==
    (last.op \in {"get", "lookup"} /\ last.response.some) =>
        last.at - last.inserted < timedelta(0, ttl_hours)

\* C6: the cache never holds more than max_size entries.
C6_CacheSizeBounded == Len(cache) <= max_size

\* a set has just run on a full cache, for a key that was not in it
C6_Witness ==
    /\ last.op = "set"
    /\ Len(last.old_cache) = max_size
    /\ cache_index(last.old_cache, last.key) = 0

(***************************************************************************)
(* Renewal workflow, continued                                             *)
(***************************************************************************)
\* List.expiry_date of the row named list_name, NULL when there is no row
expiry_date(list_name) ==
    IF list_name \in DOMAIN lists THEN lists[list_name] ELSE NULL

\* the request of the scenario, and what the scenario has done to a
\* subscription that expired or will expire on `expiry`
ScenarioStage(expiry) ==
    LET renewal == renewal_requests[1]
        extension == timedelta(renewal.months * 30, 0)
    IN  /\ last.op = "submit" =>
               /\ renewal.status = "pending"
               /\ expiry_date(renewal.list_name) = expiry
        /\ last.op = "contest" =>
               /\ last.old_row.status = "pending"
               /\ renewal.status = "contested"
               /\ expiry_date(renewal.list_name) = expiry
        /\ last.op = "approve" =>
               /\ last.old_row.status = "contested"
               /\ renewal.status = "approved"
               /\ expiry_date(renewal.list_name) = expiry + extension

\* C11: submit(m), contest, approve on one request of a subscription that
\* has an expiry: the status is pending after the submit, contested after
\* the contest and approved after the approve; the expiry is what it was
\* before the submit until the approve, which sets it to that value plus
\* m * 30 days.
C11_SubmitContestApprove ==
    \A expiry \in {timedelta(Day0 - 10, 0), timedelta(Day0 + 10, 0)} :
        (lists = [n \in ListNames |-> expiry]) => []ScenarioStage(expiry)

\* the three calls have run on a request of 3 months whose subscription had
\* expired before the submit, and days have passed between the calls
C11_Witness ==
    /\ Decided("approve")
    /\ last.old_row.status = "contested"
    /\ last.old_row.months = 3
    /\ HadRow
    /\ OldExpiry = timedelta(Day0 - 10, 0)
    /\ last.at > timedelta(Day0, 0)
    /\ lists[last.old_row.list_name] = OldExpiry + timedelta(90, 0)

\* C12: every change of a renewal request's status is one of
\* pending -> contested, pending -> approved, pending -> rejected,
\* contested -> approved, contested -> rejected; in particular no step moves
\* a request back to pending and the only changes out of contested are to
\* approved or rejected.
C12_StatusFollowsStateMachine ==
    [][\A r \in DOMAIN renewal_requests :
          LET old == renewal_requests[r].status
              new == renewal_requests'[r].status
          IN  old # new =>
                 \/ old = "pending" /\ new \in {"contested", "approved", "rejected"}
                 \/ old = "contested" /\ new \in {"approved", "rejected"}]_vars

\* C13: a subscription's expiry changes only in a step in which a renewal
\* request for that subscription becomes approved (its status was not
\* approved before the step and is approved after it); submit, reject and
\* contest change no expiry.
C13_ExpiryChangesOnlyOnApproval ==
    [][\A n \in DOMAIN lists :
          lists'[n] # lists[n] =>
             \E r \in DOMAIN renewal_requests :
                /\ renewal_requests[r].list_name = n
                /\ renewal_requests[r].status # "approved"
                /\ renewal_requests'[r].status = "approved"]_vars

\* C14: every renewal request that has been submitted, through either front
\* end, records as its cost the euro sign followed by months * 15, whoever
\* the requester is and whichever subscription it names.
C14_CostIsMonthsTimes15 ==
    /\ \A r \in DOMAIN renewal_requests :
          /\ renewal_requests[r].months >= 1
          /\ renewal_requests[r].cost = euro(renewal_requests[r].months * 15)
    /\ \A t \in DOMAIN tickets_db :
          tickets_db[t].type = "renewal" =>
             /\ tickets_db[t].data.months >= 1
             /\ tickets_db[t].data.total = euro(tickets_db[t].data.months * 15)

\* two requests of different requesters for different subscriptions and
\* different numbers of months have been submitted
C14_Witness ==
    /\ Len(renewal_requests) = 2
    /\ renewal_requests[1].user_id # renewal_requests[2].user_id
    /\ renewal_requests[1].list_name # renewal_requests[2].list_name
    /\ renewal_requests[1].months = 1
    /\ renewal_requests[2].months = MaxMonths
    /\ renewal_requests[2].cost = euro(MaxMonths * 15)

\* the submit just handled has added exactly one request, pending and as
\* asked, and has changed no other request
SubmittedOnePending ==
    /\ Len(renewal_requests) = Len(last.old_requests) + 1
    /\ \A r \in DOMAIN last.old_requests : renewal_requests[r] = last.old_requests[r]
    /\ LET renewal == renewal_requests[last.id]
       IN  /\ renewal.status = "pending"
           /\ renewal.user_id = last.by
           /\ renewal.list_name = last.list_name
           /\ renewal.months = last.months

\* C15: a submit with months >= 1 creates exactly one renewal request, in
\* status pending, and sends the operators a notification; the request is
\* there and pending also when the notification does not reach an operator.
C15_SubmitCreatesPendingAndNotifies ==
    (last.op = "submit" /\ last.months >= 1) =>
        /\ SubmittedOnePending
        /\ last.attempted # {}

(***************************************************************************)
(* Ticket lifecycle, continued                                             *)
(***************************************************************************)
\* the ticket a ticket handler was called for was stored and owned by the
\* caller when the handler ran
CalledByOwner ==
    /\ last.id \in DOMAIN last.old_tickets
    /\ last.old_tickets[last.id].user_id = last.by

\* C16: a reply that names a ticket which is not stored, or a ticket of
\* another requester, is answered "not found", leaves every ticket with the
\* status and the messages it had, and does not call the assistant.
C16_ReplyToForeignTicketFails ==
    (last.op = "reply" /\ last.id # 0 /\ ~CalledByOwner) =>
        /\ last.ack = "not_found"
        /\ tickets = last.old_tickets
        /\ last.provider_calls = 0

\* a requester has replied to a stored ticket of somebody else, which holds
\* messages and is not closed
C16_Witness ==
    /\ last.op = "reply"
    /\ last.id \in DOMAIN last.old_tickets
    /\ last.old_tickets[last.id].user_id # last.by
    /\ last.old_tickets[last.id].status # "closed"
    /\ last.old_tickets[last.id].messages # <<>>

\* C17: every reply accepted on an open or escalated ticket appends exactly
\* one user message and then either exactly one assistant message, or no
\* assistant message with the ticket left escalated; nothing else happens
\* to the ticket and no other ticket changes.
C17_ReplyHasTwoOutcomes ==
    (/\ last.op = "reply"
     /\ CalledByOwner
     /\ last.old_tickets[last.id].status \in {"open", "escalated"}) =>
        LET old == last.old_tickets[last.id]
            new == tickets[last.id]
            n == Len(old.messages)
        IN  /\ \A t \in DOMAIN last.old_tickets :
                  t # last.id => tickets[t] = last.old_tickets[t]
            /\ Len(new.messages) > n
            /\ SubSeq(new.messages, 1, n) = old.messages
            /\ new.messages[n + 1].user_id = last.by
            /\ ~new.messages[n + 1].is_ai /\ ~new.messages[n + 1].is_admin
            /\ \/ /\ Len(new.messages) = n + 2
                  /\ new.messages[n + 2].is_ai /\ ~new.messages[n + 2].is_admin
               \/ /\ Len(new.messages) = n + 1
                  /\ new.status = "escalated"

\* a reply on an open ticket got no answer and escalated it
C17_Witness ==
    /\ last.op = "reply"
    /\ CalledByOwner
    /\ last.old_tickets[last.id].status = "open"
    /\ NoAnswer(last.outcome)
    /\ tickets[last.id].status = "escalated"
    /\ Len(tickets[last.id].messages) = Len(last.old_tickets[last.id].messages) + 1

\* C18: a close by the ticket's owner or by an operator sets the status to
\* closed whatever it was (open, escalated or closed) and changes nothing
\* else; closing a ticket that is already closed leaves it exactly as it
\* was.
C18_CloseIsIdempotent ==
    (\/ last.op = "close" /\ CalledByOwner
     \/ /\ last.op = "admin_close"
        /\ last.by \in Admins
        /\ last.id \in DOMAIN last.old_tickets) =>
        /\ last.ack = "closed"
        /\ tickets = [last.old_tickets EXCEPT ![last.id].status = "closed"]
        /\ last.old_tickets[last.id].status = "closed" => tickets = last.old_tickets

\* an operator has closed a ticket that was closed already and holds
\* messages
C18_Witness ==
    /\ last.op = "admin_close"
    /\ last.ack = "closed"
    /\ last.old_tickets[last.id].status = "closed"
    /\ last.old_tickets[last.id].messages # <<>>
    /\ tickets = last.old_tickets

\* the tickets that were not closed before the last handler ran and are
\* closed after it
BecameClosed ==
    IF last.op = "init" THEN {}
    ELSE {t \in DOMAIN tickets :
            /\ tickets[t].status = "closed"
            /\ t \in DOMAIN last.old_tickets => last.old_tickets[t].status # "closed"}

\* C19: a close asked by somebody who is neither the ticket's owner nor an
\* operator leaves the ticket's status (and every ticket) unchanged, and a
\* ticket becomes closed only in a close by its owner or a close by an
\* operator.
C19_OnlyOwnerOrOperatorCloses ==
    /\ (/\ last.op \in {"close", "admin_close"}
        /\ ~CalledByOwner
        /\ last.by \notin Admins) => tickets = last.old_tickets
    /\ \A t \in BecameClosed :
          /\ last.id = t
          /\ \/ last.op = "close" /\ CalledByOwner
             \/ last.op = "admin_close" /\ last.by \in Admins

\* somebody who is neither owner nor operator has pressed the operators'
\* close button of a stored ticket that is not closed
C19_Witness ==
    /\ last.op = "admin_close"
    /\ last.by \notin Admins
    /\ last.id \in DOMAIN last.old_tickets
    /\ last.old_tickets[last.id].user_id # last.by
    /\ last.old_tickets[last.id].status = "escalated"
    /\ tickets[last.id].status = "escalated"

\* the operator's reply just handled has added one message to its ticket,
\* written by the operator and tagged is_admin, and nothing else
AppendedOperatorMessage ==
    LET old == last.old_tickets[last.id]
        new == tickets[last.id]
        n == Len(old.messages)
    IN  /\ Len(new.messages) = n + 1
        /\ SubSeq(new.messages, 1, n) = old.messages
        /\ new.messages[n + 1].is_admin /\ ~new.messages[n + 1].is_ai
        /\ new.messages[n + 1].user_id = last.by
        /\ tickets = [last.old_tickets EXCEPT ![last.id].messages = new.messages]

\* C20, as stated: every operator reply appends exactly one message tagged
\* is_admin and leaves the ticket's status unchanged, and a status becomes
\* closed only in a close.
C20_OperatorReplyAppendsOne ==
    /\ last.op = "operator_reply" =>
          /\ AppendedOperatorMessage
          /\ tickets[last.id].status = last.old_tickets[last.id].status
    /\ BecameClosed # {} => last.op \in {"close", "admin_close"}

\* C20, amended: an operator reply that was delivered to the ticket's owner
\* appends exactly one message tagged is_admin, an operator reply that could
\* not be delivered appends nothing; both leave the ticket's status
\* unchanged, and a status becomes closed only in a close.
C20_DeliveredOperatorReplyAppendsOne ==
    /\ last.op = "operator_reply" =>
          /\ IF last.ack = "sent"
             THEN AppendedOperatorMessage
             ELSE tickets = last.old_tickets
          /\ tickets[last.id].status = last.old_tickets[last.id].status
    /\ BecameClosed # {} => last.op \in {"close", "admin_close"}

\* a delivered operator reply has been stored on an escalated ticket, which
\* is still escalated
C20_Witness ==
    /\ last.op = "operator_reply"
    /\ last.ack = "sent"
    /\ last.old_tickets[last.id].status = "escalated"
    /\ tickets[last.id].status = "escalated"
    /\ tickets[last.id].messages[Len(tickets[last.id].messages)].is_admin

\* the cache holds an entry for key that has not expired at time t
LiveEntry(c, key, t) ==
    /\ cache_index(c, key) # 0
    /\ entry_valid(c[cache_index(c, key)].timestamp, t)

\* C21: a call of the pipeline made while the cache holds a live entry for
\* its (problem, context) key returns the reply of that entry and does not
\* call the provider.
C21_LiveEntryIsServedWithoutProvider ==
    (last.op = "resolve" /\ LiveEntry(last.old_cache, last.key, last.at))
    => /\ last.result =
              Some(last.old_cache[cache_index(last.old_cache, last.key)].response)
       /\ last.provider_calls = 0

\* the entries of the cache that the last call of the pipeline wrote
StoredByLastCall ==
    { i \in DOMAIN cache :
        \A j \in DOMAIN last.old_cache : last.old_cache[j] # cache[i] }

\* C22: the pipeline stores a reply only when it returns that reply as a
\* non-empty resolution; a reply turned into None by an escalation keyword is
\* not stored, and no cache hit returns a reply holding an escalation keyword.
C22_OnlyResolutionsAreStored ==
    last.op = "resolve"
    => /\ \A i \in StoredByLastCall :
              /\ truthy(last.result)
              /\ cache[i].response = last.result.text
       /\ last.source = "cache" => ~any_escalation_keyword(last.result.text)

\* the history of a ticket before the last call, empty when it had none
old_history_of(ticket_id) ==
    IF ticket_id \in DOMAIN last.old_history
    THEN last.old_history[ticket_id] ELSE <<>>

\* C23: every ticket's history holds at most max_history messages, and a call
\* of add_message leaves the ticket with the last max_history messages of its
\* former history followed by the new one, in that order, the other tickets
\* as they were.
C23_HistoryKeepsLastMessages ==
    /\ \A ticket_id \in DOMAIN conversation_history :
           Len(conversation_history[ticket_id]) <= max_history
    /\ last.op = "add_message"
       => /\ conversation_history[last.ticket_id] =
                 last_n(Append(old_history_of(last.ticket_id), last.message),
                        max_history)
          /\ \A ticket_id \in DOMAIN conversation_history \ {last.ticket_id} :
                 /\ ticket_id \in DOMAIN last.old_history
                 /\ conversation_history[ticket_id] = last.old_history[ticket_id]

\* a full history received a message and lost its oldest one
C23_Witness ==
    /\ last.op = "add_message"
    /\ Len(old_history_of(last.ticket_id)) = max_history
    /\ Len(conversation_history[last.ticket_id]) = max_history
    /\ conversation_history[last.ticket_id][1] = old_history_of(last.ticket_id)[2]
    /\ conversation_history[last.ticket_id][1] # old_history_of(last.ticket_id)[1]
    /\ conversation_history[last.ticket_id][max_history] = last.message

\* the last call asked the provider and the provider failed
ProviderFailed ==
    /\ last.op \in {"open", "reply", "resolve"}
    /\ last.provider_calls = 1
    /\ last.outcome \in ProviderFaults

\* the messages of the ticket of the last call before that call
old_messages ==
    IF last.id \in DOMAIN last.old_tickets
    THEN last.old_tickets[last.id].messages ELSE <<>>

\* C24: a fault of the provider gives None in get_ai_response, and the
\* handler that called it does what it does for a reply with an escalation
\* keyword: it stores the user's message only, marks the ticket escalated and
\* acknowledges the escalation.  A fault in the pipeline gives None as well
\* and adds no entry to the response cache.
C24_ProviderFaultIsEscalation ==
    ProviderFailed
    => IF last.op = "resolve"
       THEN /\ last.result = None
            /\ StoredByLastCall = {}
            /\ Len(cache) <= Len(last.old_cache)
       ELSE /\ get_ai_response(last.outcome) = None
            /\ get_ai_response(last.outcome) =
                   get_ai_response(Completion(<<"troppo", "complesso">>))
            /\ last.ack = "escalated"
            /\ tickets[last.id].status = "escalated"
            /\ Len(tickets[last.id].messages) = Len(old_messages) + 1
            /\ SubSeq(tickets[last.id].messages, 1, Len(old_messages)) = old_messages
            /\ ~tickets[last.id].messages[Len(old_messages) + 1].is_ai

\* the provider failed in a reply to a ticket that held an assistant reply, and
\* in a pipeline call made with a stored reply of another key
C24_Witness ==
    /\ ProviderFailed
    /\ \/ /\ last.op = "reply"
          /\ last.old_tickets[last.id].status = "open"
          /\ Len(old_messages) = 2
       \/ /\ last.op = "resolve"
          /\ last.old_cache # <<>>
          /\ \E t \in DOMAIN tickets : tickets[t].status = "escalated"

\* C30: a reply of the owner to an escalated ticket asks the assistant again;
\* whatever the assistant returns, the user's message is stored after the
\* former messages and the ticket is still escalated.
C30_ReplyOnEscalatedStaysEscalated ==
    (/\ last.op = "reply"
     /\ last.id \in DOMAIN last.old_tickets
     /\ last.old_tickets[last.id].user_id = last.by
     /\ last.old_tickets[last.id].status = "escalated")
    => /\ last.provider_calls = 1
       /\ tickets[last.id].status = "escalated"
       /\ Len(tickets[last.id].messages) > Len(old_messages)
       /\ SubSeq(tickets[last.id].messages, 1, Len(old_messages)) = old_messages
       /\ LET user_message == tickets[last.id].messages[Len(old_messages) + 1]
          IN  /\ user_message.user_id = last.by
              /\ ~user_message.is_ai
              /\ ~user_message.is_admin

\* the assistant answered a reply to an escalated ticket, which holds the
\* answer and is still escalated
C30_Witness ==
    /\ last.op = "reply"
    /\ last.id \in DOMAIN last.old_tickets
    /\ last.old_tickets[last.id].status = "escalated"
    /\ last.ack = "ai_reply"
    /\ tickets[last.id].status = "escalated"
    /\ Len(tickets[last.id].messages) = Len(old_messages) + 2

\* C29: in every committed state each ticket holds its description as first
\* message, written by its owner, and each message of the user is followed by
\* the assistant's reply of its turn unless the ticket is escalated.
C29_CommittedTicketHasItsTurns ==
    \A t \in DOMAIN tickets :
        LET messages == tickets[t].messages
        IN  /\ messages # <<>>
            /\ messages[1].message = tickets[t].description
            /\ messages[1].user_id = tickets[t].user_id
            /\ ~messages[1].is_ai
            /\ \A i \in DOMAIN messages :
                   (~messages[i].is_ai /\ ~messages[i].is_admin)
                   => \/ tickets[t].status = "escalated"
                      \/ (i < Len(messages) /\ messages[i + 1].is_ai)

rank(messages, i) ==
    1 + Cardinality({ j \in DOMAIN messages :
            \/ messages[j].created_at < messages[i].created_at
            \/ (messages[j].created_at = messages[i].created_at /\ j < i) })

\* query(TicketMessage)...order_by(TicketMessage.created_at): the history of
\* a ticket as it is read
history(ticket) ==
    [k \in DOMAIN ticket.messages |->
        ticket.messages[CHOOSE i \in DOMAIN ticket.messages :
                            rank(ticket.messages, i) = k]]

\* the number of the update that a user's message came with
turn_of(message) ==
    CHOOSE n \in DOMAIN TurnTexts : message.message = <<TurnTexts[n]>>

\* C26: within every ticket the messages are stored in the order the updates
\* arrived, with non-decreasing created_at; an assistant reply comes directly
\* after the user's message of its turn, and the user's messages follow each
\* other in the order of their turns.
C26_MessagesInArrivalOrder ==
    \A t \in DOMAIN tickets :
        LET messages == tickets[t].messages
        IN  /\ \A i \in DOMAIN messages, j \in DOMAIN messages :
                   i < j => messages[i].created_at <= messages[j].created_at
            /\ \A i \in DOMAIN messages :
                   messages[i].is_ai => (i > 1 /\ ~messages[i - 1].is_ai)
            /\ \A i \in DOMAIN messages, j \in DOMAIN messages :
                   (i < j /\ ~messages[i].is_ai /\ ~messages[j].is_ai)
                   => turn_of(messages[i]) < turn_of(messages[j])

\* a ticket holds an answered turn followed by a later turn, written at
\* different times
C26_Witness ==
    \E t \in DOMAIN tickets :
        /\ Len(tickets[t].messages) >= 3
        /\ tickets[t].messages[2].is_ai
        /\ ~tickets[t].messages[3].is_ai
        /\ tickets[t].messages[2].created_at < tickets[t].messages[3].created_at

\* the messages a finished reply handler stored: the user's message of its
\* turn, then the assistant's reply when there was one
is_block(messages, rec) ==
    /\ Len(messages) = (IF rec.ack = "ai_reply" THEN 2 ELSE 1)
    /\ messages[1].message = <<TurnTexts[rec.turn]>>
    /\ messages[1].user_id = rec.by
    /\ ~messages[1].is_ai
    /\ rec.ack = "ai_reply" => messages[2].is_ai

\* the history ends with the messages of turn `first`, then those of `second`
ends_with_turns(messages, first, second) ==
    LET n == Len(messages)
        a == IF first.ack = "ai_reply" THEN 2 ELSE 1
        b == IF second.ack = "ai_reply" THEN 2 ELSE 1
    IN  /\ n >= a + b
        /\ is_block(SubSeq(messages, n - a - b + 1, n - b), first)
        /\ is_block(SubSeq(messages, n - b + 1, n), second)

\* two replies to the same ticket, received one after the other, are both
\* finished
TwoRepliesDone(p, q) ==
    /\ p # q
    /\ handler[p].op = "reply" /\ handler[q].op = "reply"
    /\ handler[p].pc = "done" /\ handler[q].pc = "done"
    /\ handler[p].ack \in {"ai_reply", "escalated"}
    /\ handler[q].ack \in {"ai_reply", "escalated"}
    /\ handler[p].id = handler[q].id
    /\ handler[q].turn = handler[p].turn + 1

\* C28: when two replies to the same ticket were received together, the
\* ticket's history and status are those of handling one reply after the
\* other, in one of the two orders: each user message is directly followed by
\* the assistant reply of its own turn, each turn left its messages once, and
\* the ticket is escalated when one of the turns escalated.
C28_TwoRepliesAreSerialized ==
    \A p \in Procs, q \in Procs :
        TwoRepliesDone(p, q)
        => LET ticket == tickets[handler[p].id]
           IN  /\ \/ ends_with_turns(history(ticket), handler[p], handler[q])
                  \/ ends_with_turns(history(ticket), handler[q], handler[p])
               /\ \A r \in {p, q} :
                      Cardinality({ i \in DOMAIN ticket.messages :
                          ticket.messages[i].message = <<TurnTexts[handler[r].turn]>> }) = 1
               /\ ("escalated" \in {handler[p].ack, handler[q].ack})
                  => ticket.status = "escalated"

\* two replies to the same ticket, received one after the other, are
\* finished, the first answered and the second escalated
C28_Witness ==
    \E p \in Procs, q \in Procs :
        /\ TwoRepliesDone(p, q)
        /\ handler[p].ack = "ai_reply"
        /\ handler[q].ack = "escalated"
        /\ Len(tickets[handler[p].id].messages) = 5

\* C27: of two operator decisions (approve or reject) made together on the
\* same renewal request, whichever order they are handled in, the one handled
\* second finds the request decided: it fails with AlreadyTerminal and leaves
\* the request and the subscription's expiry as the first one left them.
C27_SecondDecisionFails ==
    (/\ Decided("approve") \/ Decided("reject")
     /\ last.old_row.status \in {"approved", "rejected"})
    => /\ last.ack = "already_terminal"
       /\ renewal_requests[last.id] = last.old_row
       /\ lists = last.old_lists

\* C31: no step sets the status of a stored ticket to open: a ticket that is
\* escalated or closed is not open after any reply, close or operator
\* message; open is the status a ticket is created with.
C31_StatusNeverReturnsToOpen ==
    [][\A t \in DOMAIN tickets :
          tickets[t].status # "open" => tickets'[t].status # "open"]_vars

\* the assistant answered a reply to a closed ticket, which is still closed
C31_Witness ==
    /\ last.op = "reply"
    /\ last.ack = "ai_reply"
    /\ last.id \in DOMAIN last.old_tickets
    /\ last.old_tickets[last.id].status = "closed"
    /\ tickets[last.id].status = "closed"
    /\ Len(tickets[last.id].messages) = Len(old_messages) + 2

\* the cutoff of the last sweep
cutoff_of_last == last.at - timedelta(last.days, 0)

\* C32: after clear_old_history(days) no stored message is older than the
\* cutoff now - days, each ticket holds exactly its former messages newer
\* than the cutoff, in their former order, and no ticket is left with an
\* empty history: a ticket whose messages were all purged has no record.
C32_SweepKeepsNewerMessages ==
    last.op = "clear_old_history"
    => /\ \A ticket_id \in DOMAIN conversation_history :
              /\ conversation_history[ticket_id] # <<>>
              /\ ticket_id \in DOMAIN last.old_history
              /\ \A i \in DOMAIN conversation_history[ticket_id] :
                     conversation_history[ticket_id][i].timestamp >= cutoff_of_last
       /\ \A ticket_id \in DOMAIN last.old_history :
              LET newer == newer_than(last.old_history[ticket_id], cutoff_of_last)
              IN  IF newer = <<>>
                  THEN ticket_id \notin DOMAIN conversation_history
                  ELSE /\ ticket_id \in DOMAIN conversation_history
                       /\ conversation_history[ticket_id] = newer

\* a sweep purged the older messages of one ticket and kept its newer ones,
\* and removed the record of another ticket
C32_Witness ==
    /\ last.op = "clear_old_history"
    /\ \E a \in DOMAIN last.old_history, b \in DOMAIN last.old_history :
           /\ a \in DOMAIN conversation_history
           /\ Len(conversation_history[a]) < Len(last.old_history[a])
           /\ b \notin DOMAIN conversation_history
           /\ last.old_history[b] # <<>>

\* C33: every requester's list of issue keywords holds at most issues_window
\* keywords, none of them twice, and user_context_cache holds at most
\* context_cache_size requesters.
C33_UserContextIsBounded ==
    /\ Len(user_context_cache) <= context_cache_size
    /\ \A i \in DOMAIN user_context_cache :
           LET common_issues == user_context_cache[i].common_issues
           IN  /\ Len(common_issues) <= issues_window
               /\ \A a \in DOMAIN common_issues, b \in DOMAIN common_issues :
                      a # b => common_issues[a] # common_issues[b]
    /\ \A i \in DOMAIN user_context_cache, j \in DOMAIN user_context_cache :
           i # j => user_context_cache[i].user_id # user_context_cache[j].user_id

\* a call for a new requester found the cache full and removed the requester
\* updated longest ago, and a requester holds a full list of keywords
C33_Witness ==
    /\ last.op = "update_user_context"
    /\ Len(last.old_context_cache) = context_cache_size
    /\ context_index(last.old_context_cache, last.user_id) = 0
    /\ Len(user_context_cache) = context_cache_size
    /\ context_index(user_context_cache, last.user_id) # 0
    /\ \E i \in DOMAIN user_context_cache :
           Len(user_context_cache[i].common_issues) = issues_window

\* the system messages of the context recorded for a user, none without one
recorded_context(user_id) ==
    IF context_index(user_context_cache, user_id) # 0
    THEN context_messages(
             user_context_cache[context_index(user_context_cache, user_id)])
    ELSE <<>>

\* C34: the keyword and behaviour messages that get_context puts before a
\* ticket's history are those recorded by update_user_context for the
\* ticket's requester, and for nobody else.
C34_ContextIsTheRequesters ==
    last.op = "get_context"
    => last.context =
           recorded_context(requester_of(last.ticket_id))
           \o last_n(IF last.ticket_id \in DOMAIN last.old_history
                     THEN last.old_history[last.ticket_id] ELSE <<>>,
                     context_window)

\* the entries of the old cache, other than that of the key being set, whose
\* key is no longer in the cache
Gone ==
    { i \in DOMAIN last.old_cache :
        /\ last.old_cache[i].key # last.key
        /\ cache_index(cache, last.old_cache[i].key) = 0 }

\* R holds n entries of the old cache, none of them newer than an entry
\* outside R
IsOldestBatch(R, n) ==
    /\ Cardinality(R) = n
    /\ \A i \in R, j \in DOMAIN last.old_cache \ R :
           last.old_cache[i].timestamp <= last.old_cache[j].timestamp

\* C35: a set on a cache that holds max_size entries removes exactly the
\* min(evict_batch, size) entries with the oldest timestamps: every entry
\* that survives is at least as recent as every removed one and is unchanged,
\* and the key being set is in the cache with the new reply afterwards.
C35_SetEvictsOldestBatch ==
    (last.op = "set" /\ Len(last.old_cache) >= max_size)
    => /\ \E R \in SUBSET DOMAIN last.old_cache :
              /\ IsOldestBatch(R, IF evict_batch < Len(last.old_cache)
                                  THEN evict_batch ELSE Len(last.old_cache))
              /\ Gone = { i \in R : last.old_cache[i].key # last.key }
              /\ \A j \in DOMAIN last.old_cache \ R :
                     last.old_cache[j].key # last.key
                     => \E k \in DOMAIN cache : cache[k] = last.old_cache[j]
       /\ cache_index(cache, last.key) # 0
       /\ cache[cache_index(cache, last.key)].response = last.response.text
       /\ cache[cache_index(cache, last.key)].timestamp = last.at

\* a set of a new key on a full cache removed the older entry and kept the
\* newer one
C35_Witness ==
    /\ last.op = "set"
    /\ Len(last.old_cache) = max_size
    /\ cache_index(last.old_cache, last.key) = 0
    /\ Gone # {}
    /\ \E j \in DOMAIN last.old_cache \ Gone :
           \A i \in Gone : last.old_cache[i].timestamp < last.old_cache[j].timestamp

\* the last call got a reply from the provider
ProviderReplied ==
    /\ last.op \in {"get_ai_response", "resolve"}
    /\ last.source = "provider"
    /\ last.outcome.kind = "text"

\* C36 as stated: get_ai_response returns None exactly when the provider's
\* reply, compared without regard to case, contains an escalation keyword,
\* and otherwise returns the reply unchanged.
C36_MarkerOrReplyUnchanged ==
    ProviderReplied
    => IF HasMarker(last.outcome)
       THEN last.result = None
       ELSE last.result = Some(last.outcome.content)

\* C36 amended: the same, the reply being returned without the white space
\* around it.
C36_MarkerOrReplyStripped ==
    ProviderReplied
    => IF HasMarker(last.outcome)
       THEN last.result = None
       ELSE last.result = Some(strip(last.outcome.content))

\* a reply with capital letters and white space around it, no keyword, was
\* returned
C36_Witness ==
    /\ ProviderReplied
    /\ last.outcome.content = <<" ", "Troppo", " ">>
    /\ last.result = Some(<<"Troppo">>)

\* C37: a lookup through get_cached_ai_response of a key whose stored reply
\* is less than 24 hours old and still in the cache returns that reply,
\* whatever earlier lookups of the key returned.
C37_StoredReplyIsVisible ==
    (last.op = "lookup" /\ LiveEntry(last.old_cache, last.key, last.at))
    => last.response =
           Some(last.old_cache[cache_index(last.old_cache, last.key)].response)

\* the ticket ids of tickets_db whose status is open
open_ids(db) == {t \in DOMAIN db : db[t].status = "open"}

\* the close_ticket call named an id that is unknown or already closed
ClosedNothing ==
    /\ last.op = "close_ticket"
    /\ last.ticket_id \in DOMAIN last.old_db
          => last.old_db[last.ticket_id].status = "closed"

\* C38: after any create_ticket and close_ticket calls open_tickets holds
\* exactly the tickets of tickets_db whose status is open, and close_ticket
\* for an unknown or already closed id leaves the tickets that exist, the
\* status of each and open_tickets as they were (an already closed ticket
\* only gets a new closed_at).
C38_OpenTicketsAreTheOpenOnes ==
    /\ open_tickets = open_ids(tickets_db)
    /\ ClosedNothing =>
          /\ DOMAIN tickets_db = DOMAIN last.old_db
          /\ open_tickets = last.old_open
          /\ \A t \in DOMAIN tickets_db :
                \A f \in DOMAIN last.old_db[t] \ {"closed_at"} :
                   tickets_db[t][f] = last.old_db[t][f]

\* a ticket closed earlier was closed again while another ticket is open
C38_Witness ==
    /\ ClosedNothing
    /\ last.ticket_id \in DOMAIN last.old_db
    /\ open_tickets # {}
    /\ Len(tickets_db) = MaxStored
    /\ tickets_db[last.ticket_id].closed_at
          # last.old_db[last.ticket_id].closed_at

\* the incidents of incident_history that have no end_time
unfinished(incidents) == {i \in DOMAIN incidents : incidents[i].end_time = NULL}

\* C39: while the service status is operational every incident of
\* incident_history has an end_time, and while it is not, the last incident
\* and no other has none.
C39_OneUnfinishedIncident ==
    LET incidents == service_status.incident_history
    IN  IF service_status.status = "operational"
        THEN unfinished(incidents) = {}
        ELSE unfinished(incidents) = {Len(incidents)}

====
